---- MODULE Spec2Model ----
(***************************************************************************)
(* Linear Regression Price-Channel Engine of share-bahadur.                *)
(*                                                                         *)
(* The engine is a set of pure functions over JavaScript numbers.  Whole   *)
(* numbers handed to it are modelled exactly: a finite number is           *)
(* a + b*sqrt(r) with a, b, r rationals (r is the one radicand a call      *)
(* produces, the variance handed to Math.sqrt), and the three non-finite   *)
(* values NaN, +Infinity and -Infinity follow the IEEE rules the code      *)
(* relies on (x/0, 0/0, NaN propagation, comparisons with NaN); these      *)
(* calls show what the formulas compute, free of rounding.  Prices given   *)
(* as decimals are binary64 numbers, and every operation on them rounds    *)
(* as the language rounds it: to the nearest binary64 number, ties to      *)
(* even.  Zero is the positive zero.                                       *)
(*                                                                         *)
(* op, inp, pc, loc and out are the function called, its arguments (the    *)
(* caller's objects), the place reached in it, its locals and its outcome. *)
(* calls records, for every call made so far, the function, the arguments  *)
(* as they were passed and the outcome.  The module keeps no variable of   *)
(* its own between calls: the source declares none.  Where inp carries     *)
(* the field decimals, a price k of inp stands for the number written      *)
(* k / 10^decimals in the caller, 0.36 for k = 36 and decimals = 2.        *)
(*                                                                         *)
(* api is one request to the route /api/ml/regression-channel: the query,  *)
(* the place reached in GET, its locals, the fetches made and the          *)
(* responses returned.  button is one WatchlistButton, chart one           *)
(* LinearRegressionChannel component, manager one WatchlistManager: their  *)
(* React state and the asynchronous work they have started.  watchlist is  *)
(* the Watchlist collection and the server actions running against it.     *)
(***************************************************************************)
EXTENDS Integers, Sequences, FiniteSets, TLC

VARIABLES op, inp, pc, loc, out, calls, api, button, chart, watchlist, manager

vars == <<op, inp, pc, loc, out, calls, api, button, chart, watchlist, manager>>

\* the state outside the engine, which no function of the engine touches
outside == <<api, button, chart, watchlist, manager>>

---------------------------------------------------------------------------
(* Bounds of the model                                                     *)

\* longest price series; series longer than MaxShortLen have two price levels
MaxLen == 5

\* longest price series over the whole price range 0..MaxPrice
MaxShortLen == 3

MaxPrice == 3

\* longest array handed directly to calculateStandardDeviation, calculateChannelBands
MaxDevLen == 2

\* most calls a caller makes one after another
MaxCalls == 3

\* highest current price handed directly to generateSignal
MaxSignalPrice == 20

---------------------------------------------------------------------------
(* Rationals: <<n, d>> with d > 0 and gcd(n, d) = 1                         *)

IAbs(i) == IF i < 0 THEN -i ELSE i

IMin(i, j) == IF i < j THEN i ELSE j

IMax(i, j) == IF i < j THEN j ELSE i

RECURSIVE GCD(_, _)
GCD(a, b) == IF b = 0 THEN a ELSE GCD(b, a % b)

\* n/d reduced by g, the sign carried by the numerator
Reduced(n, d, g) == IF d < 0 THEN <<(-n) \div g, (-d) \div g>> ELSE <<n \div g, d \div g>>

Rat(n, d) == Reduced(n, d, GCD(IAbs(n), IAbs(d)))

RZero == <<0, 1>>

ROne == <<1, 1>>

\* p + q over the least common denominator, g being gcd of the denominators
RAddOver(p, q, g) == Rat(p[1] * (q[2] \div g) + q[1] * (p[2] \div g), (p[2] \div g) * q[2])

RAdd(p, q) == RAddOver(p, q, GCD(p[2], q[2]))

RNeg(p) == <<-p[1], p[2]>>

RSub(p, q) == RAdd(p, RNeg(q))

\* p * q with the common factors g1 of p[1], q[2] and g2 of q[1], p[2] cancelled first
RMulCancelled(p, q, g1, g2) ==
    Rat((p[1] \div g1) * (q[1] \div g2), (p[2] \div g2) * (q[2] \div g1))

RMul(p, q) == RMulCancelled(p, q, GCD(IAbs(p[1]), q[2]), GCD(IAbs(q[1]), p[2]))

RInv(p) == Rat(p[2], p[1])

RLtOver(p, q, g) == p[1] * (q[2] \div g) < q[1] * (p[2] \div g)

RLt(p, q) == RLtOver(p, q, GCD(p[2], q[2]))

RSgn(p) == IF p[1] < 0 THEN -1 ELSE IF p[1] = 0 THEN 0 ELSE 1

RECURSIVE ISqrtB(_, _, _)
ISqrtB(k, lo, hi) ==
    IF lo >= hi THEN lo
    ELSE LET mid == (lo + hi + 1) \div 2
         IN  IF mid * mid <= k THEN ISqrtB(k, mid, hi) ELSE ISqrtB(k, lo, mid - 1)

ISqrt(k) == ISqrtB(k, 0, IMin(k, 46340))

Squares(k, root) == root * root = k

IsSquare(k) == Squares(k, ISqrt(k))

---------------------------------------------------------------------------
(* Natural numbers of any size: the digits in base 2^15, least significant *)
(* first, the last digit not zero; <<>> is zero                            *)

Base == 2^15

RECURSIVE Trim(_)
Trim(a) == IF Len(a) = 0 \/ a[Len(a)] # 0 THEN a ELSE Trim(SubSeq(a, 1, Len(a) - 1))

Digit(a, i) == IF i <= Len(a) THEN a[i] ELSE 0

RECURSIVE NatOf(_)
NatOf(k) == IF k = 0 THEN <<>> ELSE <<k % Base>> \o NatOf(k \div Base)

RECURSIVE NAddFrom(_, _, _, _)
NAddFrom(a, b, i, carry) ==
    IF i > Len(a) /\ i > Len(b) THEN NatOf(carry)
    ELSE <<(Digit(a, i) + Digit(b, i) + carry) % Base>>
         \o NAddFrom(a, b, i + 1, (Digit(a, i) + Digit(b, i) + carry) \div Base)

NAdd(a, b) == NAddFrom(a, b, 1, 0)

RECURSIVE NSubFrom(_, _, _, _)
NSubFrom(a, b, i, borrow) ==
    IF i > Len(a) THEN <<>>
    ELSE <<(a[i] - Digit(b, i) - borrow) % Base>>
         \o NSubFrom(a, b, i + 1, IF a[i] - Digit(b, i) - borrow < 0 THEN 1 ELSE 0)

\* a - b for a >= b
NSub(a, b) == Trim(NSubFrom(a, b, 1, 0))

RECURSIVE NCmpAt(_, _, _)
NCmpAt(a, b, i) ==
    IF i = 0 THEN 0
    ELSE IF a[i] < b[i] THEN -1
    ELSE IF a[i] > b[i] THEN 1
    ELSE NCmpAt(a, b, i - 1)

\* -1, 0, 1 as a < b, a = b, a > b
NCmp(a, b) ==
    IF Len(a) < Len(b) THEN -1 ELSE IF Len(a) > Len(b) THEN 1 ELSE NCmpAt(a, b, Len(a))

RECURSIVE NScaleFrom(_, _, _, _)
NScaleFrom(a, s, i, carry) ==
    IF i > Len(a) THEN NatOf(carry)
    ELSE <<(a[i] * s + carry) % Base>> \o NScaleFrom(a, s, i + 1, (a[i] * s + carry) \div Base)

\* a * s for one digit s
NScale(a, s) == IF s = 0 THEN <<>> ELSE NScaleFrom(a, s, 1, 0)

\* a * Base^k
NShiftDigits(a, k) == IF Len(a) = 0 THEN a ELSE [i \in 1..k |-> 0] \o a

RECURSIVE NMulFrom(_, _, _)
NMulFrom(a, b, j) ==
    IF j > Len(b) THEN <<>>
    ELSE NAdd(NShiftDigits(NScale(a, b[j]), j - 1), NMulFrom(a, b, j + 1))

NMul(a, b) == NMulFrom(a, b, 1)

\* a * 2^k
NShl(a, k) == NShiftDigits(NScale(a, 2^(k % 15)), k \div 15)

RECURSIVE NDivDigit(_, _, _, _)
NDivDigit(a, s, i, rem) ==
    IF i = 0 THEN <<>>
    ELSE NDivDigit(a, s, i - 1, (rem * Base + a[i]) % s) \o <<(rem * Base + a[i]) \div s>>

\* a \div 2^k
NShr(a, k) ==
    IF k \div 15 >= Len(a) THEN <<>>
    ELSE Trim(NDivDigit(SubSeq(a, k \div 15 + 1, Len(a)), 2^(k % 15),
                        Len(a) - k \div 15, 0))

\* a is a multiple of 2^k
NMultiple(a, k) == NShl(NShr(a, k), k) = a

RECURSIVE BitLength(_)
BitLength(k) == IF k = 0 THEN 0 ELSE 1 + BitLength(k \div 2)

\* the number of binary digits of a
NBits(a) == IF Len(a) = 0 THEN 0 ELSE 15 * (Len(a) - 1) + BitLength(a[Len(a)])

NOdd(a) == Len(a) > 0 /\ a[1] % 2 = 1

\* r/d to `bits` binary digits for d <= r < 2d: the digits found so far are q; and
\* whether r/d has more digits than that
RECURSIVE NQuotient(_, _, _, _)
NQuotient(r, d, q, bits) ==
    IF NBits(q) = bits THEN [q |-> q, inexact |-> Len(r) # 0]
    ELSE IF NCmp(r, d) >= 0
         THEN NQuotient(NScale(NSub(r, d), 2), d, NAdd(NScale(q, 2), <<1>>), bits)
         ELSE NQuotient(NScale(r, 2), d, NScale(q, 2), bits)

\* the largest root with root^2 <= n, its binary digits decided from bit i down
RECURSIVE NSqrtFrom(_, _, _)
NSqrtFrom(n, root, i) ==
    IF i < 0 THEN root
    ELSE IF NCmp(NMul(NAdd(root, NShl(<<1>>, i)), NAdd(root, NShl(<<1>>, i))), n) <= 0
         THEN NSqrtFrom(n, NAdd(root, NShl(<<1>>, i)), i - 1)
         ELSE NSqrtFrom(n, root, i - 1)

NSqrt(n) == NSqrtFrom(n, <<>>, (NBits(n) - 1) \div 2)

---------------------------------------------------------------------------
(* Binary64, the numbers the engine computes with: a finite number is      *)
(* +-m * 2^e with m of exactly MantissaBits binary digits, or zero (m      *)
(* empty).  Every operation returns the representable number nearest to    *)
(* the exact result, ties to the even m.  The exponent is not bounded: no  *)
(* price series of the model comes near overflow or the subnormal range.   *)

MantissaBits == 53

Dbl(neg, m, e) == [t |-> "dbl", neg |-> neg, m |-> m, e |-> e]

DZero == Dbl(FALSE, <<>>, 0)

\* m + 1 may need one more binary digit: it is then a power of two
Carried(neg, m, e) ==
    IF NBits(m) > MantissaBits THEN Dbl(neg, NShr(m, 1), e + 1) ELSE Dbl(neg, m, e)

RoundedTo(neg, kept, e, up) ==
    IF up THEN Carried(neg, NAdd(kept, <<1>>), e) ELSE Dbl(neg, kept, e)

\* q holds the digits kept and under them the first digit dropped
RoundedFrom(neg, q, e, sticky) ==
    RoundedTo(neg, NShr(q, 1), e, NOdd(q) /\ (sticky \/ NOdd(NShr(q, 1))))

\* k > 0 binary digits of m are dropped
RoundedAt(neg, m, e, inexact, k) ==
    RoundedFrom(neg, NShr(m, k - 1), e + k, inexact \/ ~NMultiple(m, k - 1))

\* the number nearest to +-(m + f) * 2^e, where 0 <= f < 1 and f # 0 exactly when inexact
Rounded(neg, m, e, inexact) ==
    IF Len(m) = 0 THEN DZero
    ELSE IF NBits(m) <= MantissaBits
         THEN Dbl(neg, NShl(m, MantissaBits - NBits(m)), e - (MantissaBits - NBits(m)))
         ELSE RoundedAt(neg, m, e, inexact, NBits(m) - MantissaBits)

DOfInt(k) == Rounded(k < 0, NatOf(IF k < 0 THEN -k ELSE k), 0, FALSE)

DNeg(x) == IF Len(x.m) = 0 THEN x ELSE Dbl(~x.neg, x.m, x.e)

DSgn(x) == IF Len(x.m) = 0 THEN 0 ELSE IF x.neg THEN -1 ELSE 1

\* mx * 2^e and my * 2^e are the magnitudes of x and y
DAddAligned(x, y, mx, my, e) ==
    IF x.neg = y.neg THEN Rounded(x.neg, NAdd(mx, my), e, FALSE)
    ELSE IF NCmp(mx, my) = 0 THEN DZero
    ELSE IF NCmp(mx, my) > 0 THEN Rounded(x.neg, NSub(mx, my), e, FALSE)
    ELSE Rounded(y.neg, NSub(my, mx), e, FALSE)

DAdd(x, y) ==
    IF Len(x.m) = 0 THEN y
    ELSE IF Len(y.m) = 0 THEN x
    ELSE IF x.e >= y.e THEN DAddAligned(x, y, NShl(x.m, x.e - y.e), y.m, y.e)
    ELSE DAddAligned(x, y, x.m, NShl(y.m, y.e - x.e), x.e)

DMul(x, y) ==
    IF Len(x.m) = 0 \/ Len(y.m) = 0 THEN DZero
    ELSE Rounded(x.neg # y.neg, NMul(x.m, y.m), x.e + y.e, FALSE)

DOfQuotient(neg, r, e) == Rounded(neg, r.q, e, r.inexact)

\* x / y for y # 0: the mantissa of x is doubled when it is the smaller one
DDiv(x, y) ==
    IF Len(x.m) = 0 THEN DZero
    ELSE IF NCmp(x.m, y.m) >= 0
         THEN DOfQuotient(x.neg # y.neg, NQuotient(x.m, y.m, <<>>, MantissaBits + 2),
                          x.e - y.e - (MantissaBits + 1))
         ELSE DOfQuotient(x.neg # y.neg,
                          NQuotient(NScale(x.m, 2), y.m, <<>>, MantissaBits + 2),
                          x.e - y.e - (MantissaBits + 2))

DOfRoot(n, root, e) == Rounded(FALSE, root, e, NMul(root, root) # n)

\* sqrt(m * 2^e) for an even e
DSqrtEven(m, e) == DOfRoot(m, NSqrt(m), e \div 2)

\* Math.sqrt(x) for x >= 0
DSqrt(x) ==
    IF Len(x.m) = 0 THEN DZero
    ELSE IF x.e % 2 = 0 THEN DSqrtEven(NShl(x.m, MantissaBits + 3), x.e - (MantissaBits + 3))
    ELSE DSqrtEven(NShl(x.m, MantissaBits + 4), x.e - (MantissaBits + 4))

---------------------------------------------------------------------------
(* JavaScript numbers                                                      *)

Fin(a, b, r) == [t |-> "fin", a |-> a, b |-> b, r |-> r]

NaN == [t |-> "nan", a |-> RZero, b |-> RZero, r |-> RZero]

PInf == [t |-> "pinf", a |-> RZero, b |-> RZero, r |-> RZero]

NInf == [t |-> "ninf", a |-> RZero, b |-> RZero, r |-> RZero]

\* a + b*sqrt(r) in normal form: the radical is dropped when it is rational
Mk(a, b, r) ==
    IF b = RZero \/ r = RZero THEN Fin(a, RZero, RZero)
    ELSE IF IsSquare(r[1]) /\ IsSquare(r[2])
         THEN Fin(RAdd(a, RMul(b, Rat(ISqrt(r[1]), ISqrt(r[2])))), RZero, RZero)
         ELSE Fin(a, b, r)

Q(n, d) == Fin(Rat(n, d), RZero, RZero)

Num(i) == Q(i, 1)

Zero == Num(0)

IsNaN(x) == x.t = "nan"

\* the binary64 number nearest to a number held exactly as a rational
Binary64(x) == IF x.t = "dbl" THEN x ELSE DDiv(DOfInt(x.a[1]), DOfInt(x.a[2]))

\* one operand is held in binary64: the operation is then the rounded one
Rounds(x, y) == x.t = "dbl" \/ y.t = "dbl"

IsFinite(x) == x.t = "fin" \/ x.t = "dbl"

Radicand(x, y) == IF x.b # RZero THEN x.r ELSE y.r

\* sign of a finite number: -1, 0 or 1
\* q*q for the rational q = a/b
RatioSquared(a, b) == RMul(RMul(a, RInv(b)), RMul(a, RInv(b)))

\* a and b of opposite signs: |a| > |b|*sqrt(r) exactly when (a/b)^2 > r
SgnOf(x, sa, sb) ==
    IF sb = 0 THEN sa
    ELSE IF sa = 0 \/ sa = sb THEN sb
    ELSE IF RLt(x.r, RatioSquared(x.a, x.b)) THEN sa ELSE sb

Sgn(x) == IF x.t = "dbl" THEN DSgn(x) ELSE SgnOf(x, RSgn(x.a), RSgn(x.b))

\* sign of any number that is not NaN
XSgn(x) == IF x.t = "pinf" THEN 1 ELSE IF x.t = "ninf" THEN -1 ELSE Sgn(x)

Inf(s) == IF s < 0 THEN NInf ELSE PInf

Neg(x) ==
    IF x.t = "nan" THEN NaN
    ELSE IF x.t = "pinf" THEN NInf
    ELSE IF x.t = "ninf" THEN PInf
    ELSE IF x.t = "dbl" THEN DNeg(x)
    ELSE Fin(RNeg(x.a), RNeg(x.b), x.r)

Add(x, y) ==
    IF x.t = "nan" \/ y.t = "nan" THEN NaN
    ELSE IF ~IsFinite(x) /\ ~IsFinite(y) THEN (IF x.t = y.t THEN x ELSE NaN)
    ELSE IF ~IsFinite(x) THEN x
    ELSE IF ~IsFinite(y) THEN y
    ELSE IF Rounds(x, y) THEN DAdd(Binary64(x), Binary64(y))
    ELSE Mk(RAdd(x.a, y.a), RAdd(x.b, y.b), Radicand(x, y))

Sub(x, y) == Add(x, Neg(y))

Product(x, y, r) ==
    Mk(RAdd(RMul(x.a, y.a), RMul(RMul(x.b, y.b), r)),
       RAdd(RMul(x.a, y.b), RMul(y.a, x.b)), r)

Mul(x, y) ==
    IF x.t = "nan" \/ y.t = "nan" THEN NaN
    ELSE IF ~IsFinite(x) \/ ~IsFinite(y)
         THEN (IF XSgn(x) = 0 \/ XSgn(y) = 0 THEN NaN ELSE Inf(XSgn(x) * XSgn(y)))
    ELSE IF Rounds(x, y) THEN DMul(Binary64(x), Binary64(y))
    ELSE Product(x, y, Radicand(x, y))

\* 1/y for a finite y # 0, k being 1/(a^2 - b^2 r): the conjugate over the norm
Reciprocal(y, k) == Fin(RMul(y.a, k), RMul(RNeg(y.b), k), y.r)

Div(x, y) ==
    IF x.t = "nan" \/ y.t = "nan" THEN NaN
    ELSE IF ~IsFinite(x) /\ ~IsFinite(y) THEN NaN
    ELSE IF ~IsFinite(x) THEN Inf(XSgn(x) * (IF Sgn(y) < 0 THEN -1 ELSE 1))
    ELSE IF ~IsFinite(y) THEN Zero
    ELSE IF Sgn(y) = 0 THEN (IF Sgn(x) = 0 THEN NaN ELSE Inf(Sgn(x)))
    ELSE IF Rounds(x, y) THEN DDiv(Binary64(x), Binary64(y))
    ELSE Mul(x, Reciprocal(y, RInv(RSub(RMul(y.a, y.a), RMul(RMul(y.b, y.b), y.r)))))

\* -1, 0, 1 for two numbers neither of which is NaN
Cmp(x, y) ==
    IF IsFinite(x) /\ IsFinite(y) THEN Sgn(Sub(x, y))
    ELSE IF x.t = y.t THEN 0
    ELSE IF x.t = "ninf" \/ y.t = "pinf" THEN -1 ELSE 1

\* the comparison operators of the language: every comparison with NaN is false
Lt(x, y) == x.t # "nan" /\ y.t # "nan" /\ Cmp(x, y) < 0

Le(x, y) == x.t # "nan" /\ y.t # "nan" /\ Cmp(x, y) <= 0

Ge(x, y) == Le(y, x)

Eq(x, y) == x.t # "nan" /\ y.t # "nan" /\ Cmp(x, y) = 0

MathAbs(x) == IF x.t = "nan" THEN NaN ELSE IF XSgn(x) < 0 THEN Neg(x) ELSE x

MathMin(x, y) == IF x.t = "nan" \/ y.t = "nan" THEN NaN ELSE IF Cmp(y, x) < 0 THEN y ELSE x

\* Math.sqrt; the argument of the engine's one call is a rational
MathSqrt(x) ==
    IF x.t = "nan" \/ x.t = "ninf" THEN NaN
    ELSE IF x.t = "pinf" THEN PInf
    ELSE IF Sgn(x) < 0 THEN NaN
    ELSE IF x.t = "dbl" THEN DSqrt(x)
    ELSE IF x.b = RZero THEN Mk(RZero, ROne, x.a)
    ELSE CHOOSE v \in {} : TRUE

RECURSIVE Sum(_)
Sum(s) == IF Len(s) = 0 THEN Zero ELSE Add(Sum(SubSeq(s, 1, Len(s) - 1)), s[Len(s)])

NumSeq(s) == [i \in 1..Len(s) |-> Num(s[i])]

---------------------------------------------------------------------------
(* Outcomes of a call                                                      *)

Return(v) == [kind |-> "return", value |-> v]

Throw(e) == [kind |-> "throw", error |-> e]

Returned(o) == o.kind = "return"

Threw(o, e) == o.kind = "throw" /\ o.error = e

InvalidInput == "Invalid input: arrays must have same non-zero length"

InsufficientData == "Need at least 2 price points for regression analysis"

\* an optional argument: <<>> when omitted, <<v>> when given
Param(arg, dflt) == IF Len(arg) = 0 THEN dflt ELSE arg[1]

---------------------------------------------------------------------------
(* calculateLinearRegression                                               *)

RegressionInputInvalid(xValues, yValues) ==
    LET n == Len(xValues) IN n = 0 \/ n # Len(yValues)

RegressionSums(xValues, yValues) ==
    LET n == Len(xValues)
    IN  [sumX  |-> Sum(xValues),
         sumY  |-> Sum(yValues),
         sumXY |-> Sum([i \in 1..n |-> Mul(xValues[i], yValues[i])]),
         sumX2 |-> Sum([i \in 1..n |-> Mul(xValues[i], xValues[i])]),
         sumY2 |-> Sum([i \in 1..n |-> Mul(yValues[i], yValues[i])])]

\* faulty variant: the square of the sum of x forgotten in the denominator
SlopeNoSquare(n, s) ==
    Div(Sub(Mul(Num(n), s.sumXY), Mul(s.sumX, s.sumY)),
        Sub(Mul(Num(n), s.sumX2), s.sumX))

Slope(n, s) ==
    Div(Sub(Mul(Num(n), s.sumXY), Mul(s.sumX, s.sumY)),
        Sub(Mul(Num(n), s.sumX2), Mul(s.sumX, s.sumX)))

Intercept(n, s, slope) == Div(Sub(s.sumY, Mul(slope, s.sumX)), Num(n))

\* faulty variant: the intercept subtracted
PredictionsMinus(xValues, slope, intercept) ==
    [i \in 1..Len(xValues) |-> Sub(Mul(slope, xValues[i]), intercept)]

Predictions(xValues, slope, intercept) ==
    [i \in 1..Len(xValues) |-> Add(Mul(slope, xValues[i]), intercept)]

Square(v) == Mul(v, v)

SsTotal(yValues, meanY) ==
    Sum([i \in 1..Len(yValues) |-> Square(Sub(yValues[i], meanY))])

SsResidual(yValues, predictions) ==
    Sum([i \in 1..Len(yValues) |-> Square(Sub(yValues[i], predictions[i]))])

\* faulty variant: the zero-variance substitution forgotten
RSquaredUnguarded(ssTotal, ssResidual) == Sub(Num(1), Div(ssResidual, ssTotal))

\* faulty variant: the ratio added instead of subtracted
RSquaredPlus(ssTotal, ssResidual) ==
    IF Eq(ssTotal, Zero) THEN Zero ELSE Add(Num(1), Div(ssResidual, ssTotal))

RSquared(ssTotal, ssResidual) ==
    IF Eq(ssTotal, Zero) THEN Zero ELSE Sub(Num(1), Div(ssResidual, ssTotal))

\* lines 71-88: R-squared of the fitted line, and the returned record
RegressionResult(yValues, n, s, slope, intercept, predictions) ==
    [slope |-> slope,
     intercept |-> intercept,
     rSquared |-> RSquared(SsTotal(yValues, Div(s.sumY, Num(n))),
                           SsResidual(yValues, predictions)),
     predictions |-> predictions]

\* lines 65-69: the intercept and the predictions, given the slope
RegressionLine(xValues, yValues, n, s, slope, intercept) ==
    RegressionResult(yValues, n, s, slope, intercept,
                     Predictions(xValues, slope, intercept))

RegressionFit(xValues, yValues, n, s, slope) ==
    RegressionLine(xValues, yValues, n, s, slope, Intercept(n, s, slope))

RegressionOf(xValues, yValues, n, s) ==
    RegressionFit(xValues, yValues, n, s, Slope(n, s))

calculateLinearRegression(xValues, yValues) ==
    IF RegressionInputInvalid(xValues, yValues) THEN Throw(InvalidInput)
    ELSE Return(RegressionOf(xValues, yValues, Len(xValues),
                             RegressionSums(xValues, yValues)))

---------------------------------------------------------------------------
(* calculateStandardDeviation                                              *)

\* faulty variant: the emptiness check forgotten
DeviationInputInvalidNoEmptyCheck(actualValues, predictedValues) ==
    Len(actualValues) # Len(predictedValues)

DeviationInputInvalid(actualValues, predictedValues) ==
    LET n == Len(actualValues) IN n = 0 \/ n # Len(predictedValues)

SumSquaredDifferences(actualValues, predictedValues) ==
    Sum([i \in 1..Len(actualValues) |-> Square(Sub(actualValues[i], predictedValues[i]))])

\* faulty variant: the sample divisor n-1
VarianceSample(sumSquaredDifferences, n) == Div(sumSquaredDifferences, Num(n - 1))

Variance(sumSquaredDifferences, n) == Div(sumSquaredDifferences, Num(n))

calculateStandardDeviation(actualValues, predictedValues) ==
    IF DeviationInputInvalid(actualValues, predictedValues) THEN Throw(InvalidInput)
    ELSE Return(MathSqrt(Variance(SumSquaredDifferences(actualValues, predictedValues),
                                  Len(actualValues))))

---------------------------------------------------------------------------
(* calculateChannelBands                                                   *)

MultiplierDefault == 2

\* faulty variant: the offset subtracted in the upper band
UpperBandMinus(predictions, standardDeviation, multiplier) ==
    [i \in 1..Len(predictions) |-> Sub(predictions[i], Mul(multiplier, standardDeviation))]

UpperBand(predictions, standardDeviation, multiplier) ==
    [i \in 1..Len(predictions) |-> Add(predictions[i], Mul(multiplier, standardDeviation))]

\* faulty variant: the multiplier forgotten in the lower band
LowerBandNoMultiplier(predictions, standardDeviation, multiplier) ==
    [i \in 1..Len(predictions) |-> Sub(predictions[i], standardDeviation)]

LowerBand(predictions, standardDeviation, multiplier) ==
    [i \in 1..Len(predictions) |-> Sub(predictions[i], Mul(multiplier, standardDeviation))]

ChannelBands(predictions, standardDeviation, multiplier) ==
    [upperBand |-> UpperBand(predictions, standardDeviation, multiplier),
     lowerBand |-> LowerBand(predictions, standardDeviation, multiplier)]

calculateChannelBands(predictions, standardDeviation, multiplierArg) ==
    Return(ChannelBands(predictions, standardDeviation,
                        Param(multiplierArg, Num(MultiplierDefault))))

---------------------------------------------------------------------------
(* generateSignal                                                          *)

BuyThreshold == Q(-7, 10)

SellThreshold == Q(7, 10)

\* faulty variant: the distance taken from the price to the prediction
NormalizedPositionInverted(currentPrice, predictedPrice, upperBandValue, lowerBandValue) ==
    Div(Sub(predictedPrice, currentPrice),
        Div(Sub(upperBandValue, lowerBandValue), Num(2)))

NormalizedPosition(currentPrice, predictedPrice, upperBandValue, lowerBandValue) ==
    Div(Sub(currentPrice, predictedPrice),
        Div(Sub(upperBandValue, lowerBandValue), Num(2)))

\* faulty variant: the strength not scaled to a percentage
StrengthUnscaled(normalizedPosition) ==
    MathMin(Num(100), MathAbs(normalizedPosition))

Strength(normalizedPosition) ==
    MathMin(Num(100), Mul(MathAbs(normalizedPosition), Num(100)))

\* faulty variant: the buy threshold itself excluded
ClassifyStrict(normalizedPosition, strength) ==
    IF Lt(normalizedPosition, BuyThreshold)
    THEN [signal |-> "BUY", strength |-> MathMin(Num(100), strength)]
    ELSE IF Ge(normalizedPosition, SellThreshold)
    THEN [signal |-> "SELL", strength |-> MathMin(Num(100), strength)]
    ELSE [signal |-> "HOLD", strength |-> Sub(Num(100), strength)]

\* faulty variant: the strength of HOLD not inverted
ClassifyHoldNotInverted(normalizedPosition, strength) ==
    IF Le(normalizedPosition, BuyThreshold)
    THEN [signal |-> "BUY", strength |-> MathMin(Num(100), strength)]
    ELSE IF Ge(normalizedPosition, SellThreshold)
    THEN [signal |-> "SELL", strength |-> MathMin(Num(100), strength)]
    ELSE [signal |-> "HOLD", strength |-> strength]

\* lines 156-166: the signal and the strength reported with it
Classify(normalizedPosition, strength) ==
    IF Le(normalizedPosition, BuyThreshold)
    THEN [signal |-> "BUY", strength |-> MathMin(Num(100), strength)]
    ELSE IF Ge(normalizedPosition, SellThreshold)
    THEN [signal |-> "SELL", strength |-> MathMin(Num(100), strength)]
    ELSE [signal |-> "HOLD", strength |-> Sub(Num(100), strength)]

SignalAt(normalizedPosition) == Classify(normalizedPosition, Strength(normalizedPosition))

generateSignal(currentPrice, predictedPrice, upperBandValue, lowerBandValue) ==
    Return(SignalAt(NormalizedPosition(currentPrice, predictedPrice,
                                       upperBandValue, lowerBandValue)))

---------------------------------------------------------------------------
(* formatRegressionEquation; a string is the sequence of its characters    *)

RECURSIVE Pow10(_)
Pow10(f) == IF f = 0 THEN 1 ELSE 10 * Pow10(f - 1)

DigitChar(k) == <<"0", "1", "2", "3", "4", "5", "6", "7", "8", "9">>[k + 1]

\* the decimal digits of the natural number k
RECURSIVE Decimal(_)
Decimal(k) == IF k < 10 THEN <<DigitChar(k)>> ELSE Append(Decimal(k \div 10), DigitChar(k % 10))

\* the f digits after the point, leading zeros kept
RECURSIVE Fraction(_, _)
Fraction(k, f) == IF f = 0 THEN <<>> ELSE Append(Fraction(k \div 10, f - 1), DigitChar(k % 10))

\* |x| * 10^f rounded to the nearest integer, the larger one on a tie
Scaled(x, f) == (2 * IAbs(x.a[1]) * Pow10(f) + x.a[2]) \div (2 * x.a[2])

\* the digits of n / 10^f, with "-" in front when the number itself is negative
FixedDigits(negative, n, f) ==
    (IF negative THEN <<"-">> ELSE <<>>)
        \o Decimal(n \div Pow10(f)) \o <<".">> \o Fraction(n % Pow10(f), f)

\* Number.prototype.toFixed for f >= 1 and numbers below 10^21
ToFixed(x, f) ==
    IF x.t = "nan" THEN <<"N", "a", "N">>
    ELSE IF x.t = "pinf" THEN <<"I", "n", "f", "i", "n", "i", "t", "y">>
    ELSE IF x.t = "ninf" THEN <<"-", "I", "n", "f", "i", "n", "i", "t", "y">>
    ELSE FixedDigits(Sgn(x) < 0, Scaled(x, f), f)

\* faulty variant: zero gets no sign
SlopeSignStrict(slope) == IF Lt(Zero, slope) THEN <<"+">> ELSE <<>>

SlopeSign(slope) == IF Ge(slope, Zero) THEN <<"+">> ELSE <<>>

InterceptSign(intercept) == IF Ge(intercept, Zero) THEN <<"+">> ELSE <<>>

formatRegressionEquation(slope, intercept) ==
    Return(<<"y", " ", "=", " ">> \o SlopeSign(slope) \o ToFixed(slope, 4) \o <<"x", " ">>
               \o InterceptSign(intercept) \o <<" ">> \o ToFixed(intercept, 2))

---------------------------------------------------------------------------
(* calculateRegressionChannel, one step per statement group                *)

StdDevMultiplierDefault == 2

\* faulty variant: the length check off by one
InsufficientPricesOffByOne(prices) == Len(prices) < 1

InsufficientPrices(prices) == Len(prices) < 2

\* faulty variant: the axis one element short
XValuesShort(prices) == [i \in 1..(Len(prices) - 1) |-> Num(i - 1)]

XValues(prices) == [i \in 1..Len(prices) |-> Num(i - 1)]

DistanceFromUpper(currentUpperBand, currentPrice, channelWidth) ==
    Mul(Div(Sub(currentUpperBand, currentPrice), channelWidth), Num(100))

\* faulty variant: the distance as a fraction of the width, not as a percentage
DistanceFromLowerFraction(currentPrice, currentLowerBand, channelWidth) ==
    Div(Sub(currentPrice, currentLowerBand), channelWidth)

DistanceFromLower(currentPrice, currentLowerBand, channelWidth) ==
    Mul(Div(Sub(currentPrice, currentLowerBand), channelWidth), Num(100))

NoLocals == [stages |-> <<>>]

\* the steps of the analysis before it returns
AnalysisSteps == {"check", "regression", "deviation", "bands", "signal", "distances"}

\* the locals after a stage has been called and has left the fields `new`
AfterStage(name, new) == ([stages |-> Append(loc.stages, name)] @@ new) @@ loc

\* the numbers written k / 10^decimals in the caller: the nearest binary64 numbers
DecimalSeq(s, decimals) == [i \in 1..Len(s) |-> Binary64(Q(s[i], 10^decimals))]

\* the prices are whole numbers, held exactly, unless the call gives them as decimals
Prices ==
    IF "decimals" \in DOMAIN inp THEN DecimalSeq(inp.prices, inp.decimals)
    ELSE NumSeq(inp.prices)

\* faulty variant: another default multiplier
StdDevMultiplierThree == Param(NumSeq(inp.stdDevMultiplier), Num(3))

StdDevMultiplier == Param(NumSeq(inp.stdDevMultiplier), Num(StdDevMultiplierDefault))

\* the call ends with `outcome`, which the record of the call keeps
Finish(outcome) ==
    /\ out' = outcome
    /\ pc' = "done"
    /\ calls' = [calls EXCEPT ![Len(calls)].out = outcome]

AnalyzeCheck ==
    /\ op = "calculateRegressionChannel" /\ pc = "check"
    /\ IF InsufficientPrices(Prices)
       THEN Finish(Throw(InsufficientData)) /\ UNCHANGED loc
       ELSE /\ loc' = [xValues |-> XValues(Prices)] @@ loc
            /\ pc' = "regression"
            /\ UNCHANGED <<out, calls>>
    /\ UNCHANGED <<op, inp>>
    /\ UNCHANGED outside

AnalyzeRegression ==
    /\ op = "calculateRegressionChannel" /\ pc = "regression"
    /\ \E r \in {calculateLinearRegression(loc.xValues, Prices)} :
          IF Returned(r)
          THEN /\ loc' = AfterStage("calculateLinearRegression", [regression |-> r.value])
               /\ pc' = "deviation"
               /\ UNCHANGED <<out, calls>>
          ELSE /\ loc' = AfterStage("calculateLinearRegression", <<>>)
               /\ Finish(r)
    /\ UNCHANGED <<op, inp>>
    /\ UNCHANGED outside

AnalyzeDeviation ==
    /\ op = "calculateRegressionChannel" /\ pc = "deviation"
    /\ \E r \in {calculateStandardDeviation(Prices, loc.regression.predictions)} :
          IF Returned(r)
          THEN /\ loc' = AfterStage("calculateStandardDeviation",
                                    [standardDeviation |-> r.value])
               /\ pc' = "bands"
               /\ UNCHANGED <<out, calls>>
          ELSE /\ loc' = AfterStage("calculateStandardDeviation", <<>>)
               /\ Finish(r)
    /\ UNCHANGED <<op, inp>>
    /\ UNCHANGED outside

\* faulty variant: the values taken one index before the last
AnalyzeBandsBeforeLast ==
    /\ op = "calculateRegressionChannel" /\ pc = "bands"
    /\ \E r \in {calculateChannelBands(loc.regression.predictions, loc.standardDeviation,
                                       <<StdDevMultiplier>>)} :
       \E lastIndex \in {Len(inp.prices) - 1} :
          /\ loc' = AfterStage("calculateChannelBands",
                       [upperBand |-> r.value.upperBand,
                        lowerBand |-> r.value.lowerBand,
                        currentPrice |-> Prices[lastIndex],
                        predictedPrice |-> loc.regression.predictions[lastIndex],
                        currentUpperBand |-> r.value.upperBand[lastIndex],
                        currentLowerBand |-> r.value.lowerBand[lastIndex]])
          /\ pc' = "signal"
    /\ UNCHANGED <<op, inp, out, calls>>
    /\ UNCHANGED outside

\* faulty variant: the last price taken off the caller's array (pop)
AnalyzeBandsPop ==
    /\ op = "calculateRegressionChannel" /\ pc = "bands"
    /\ \E r \in {calculateChannelBands(loc.regression.predictions, loc.standardDeviation,
                                       <<StdDevMultiplier>>)} :
       \E lastIndex \in {Len(inp.prices)} :
          /\ loc' = AfterStage("calculateChannelBands",
                       [upperBand |-> r.value.upperBand,
                        lowerBand |-> r.value.lowerBand,
                        currentPrice |-> Prices[lastIndex],
                        predictedPrice |-> loc.regression.predictions[lastIndex],
                        currentUpperBand |-> r.value.upperBand[lastIndex],
                        currentLowerBand |-> r.value.lowerBand[lastIndex]])
          /\ inp' = [inp EXCEPT !.prices = SubSeq(inp.prices, 1, lastIndex - 1)]
          /\ pc' = "signal"
    /\ UNCHANGED <<op, out, calls>>
    /\ UNCHANGED outside

\* lines 194-205: the bands, then the values at the last index
AnalyzeBands ==
    /\ op = "calculateRegressionChannel" /\ pc = "bands"
    /\ \E r \in {calculateChannelBands(loc.regression.predictions, loc.standardDeviation,
                                       <<StdDevMultiplier>>)} :
       \E lastIndex \in {Len(inp.prices)} :
          /\ loc' = AfterStage("calculateChannelBands",
                       [upperBand |-> r.value.upperBand,
                        lowerBand |-> r.value.lowerBand,
                        currentPrice |-> Prices[lastIndex],
                        predictedPrice |-> loc.regression.predictions[lastIndex],
                        currentUpperBand |-> r.value.upperBand[lastIndex],
                        currentLowerBand |-> r.value.lowerBand[lastIndex]])
          /\ pc' = "signal"
    /\ UNCHANGED <<op, inp, out, calls>>
    /\ UNCHANGED outside

AnalyzeSignal ==
    /\ op = "calculateRegressionChannel" /\ pc = "signal"
    /\ \E r \in {generateSignal(loc.currentPrice, loc.predictedPrice,
                                loc.currentUpperBand, loc.currentLowerBand)} :
          /\ loc' = AfterStage("generateSignal",
                       [signal |-> r.value.signal, strength |-> r.value.strength])
          /\ pc' = "distances"
    /\ UNCHANGED <<op, inp, out, calls>>
    /\ UNCHANGED outside

\* lines 215-233: the distances to the bands, and the returned record
AnalyzeReturn ==
    /\ op = "calculateRegressionChannel" /\ pc = "distances"
    /\ \E channelWidth \in {Sub(loc.currentUpperBand, loc.currentLowerBand)} :
          Finish(Return(
             [regression |-> loc.regression,
              upperBand |-> loc.upperBand,
              lowerBand |-> loc.lowerBand,
              middleLine |-> loc.regression.predictions,
              standardDeviation |-> loc.standardDeviation,
              currentPrice |-> loc.currentPrice,
              predictedPrice |-> loc.predictedPrice,
              signal |-> loc.signal,
              signalStrength |-> loc.strength,
              distanceFromUpper |->
                  DistanceFromUpper(loc.currentUpperBand, loc.currentPrice, channelWidth),
              distanceFromLower |->
                  DistanceFromLower(loc.currentPrice, loc.currentLowerBand, channelWidth),
              channelWidth |-> channelWidth]))
    /\ UNCHANGED <<op, inp, loc>>
    /\ UNCHANGED outside

---------------------------------------------------------------------------
(* Direct calls of the exported stages                                     *)

CallRegression ==
    /\ op = "calculateLinearRegression" /\ pc = "call"
    /\ Finish(calculateLinearRegression(NumSeq(inp.xValues), NumSeq(inp.yValues)))
    /\ UNCHANGED <<op, inp, loc>>
    /\ UNCHANGED outside

CallDeviation ==
    /\ op = "calculateStandardDeviation" /\ pc = "call"
    /\ Finish(calculateStandardDeviation(NumSeq(inp.actualValues),
                                         NumSeq(inp.predictedValues)))
    /\ UNCHANGED <<op, inp, loc>>
    /\ UNCHANGED outside

CallBands ==
    /\ op = "calculateChannelBands" /\ pc = "call"
    /\ Finish(calculateChannelBands(NumSeq(inp.predictions), inp.standardDeviation,
                                    NumSeq(inp.multiplier)))
    /\ UNCHANGED <<op, inp, loc>>
    /\ UNCHANGED outside

CallSignal ==
    /\ op = "generateSignal" /\ pc = "call"
    /\ Finish(generateSignal(Num(inp.currentPrice), Num(inp.predictedPrice),
                             Num(inp.upperBandValue), Num(inp.lowerBandValue)))
    /\ UNCHANGED <<op, inp, loc>>
    /\ UNCHANGED outside

CallFormat ==
    /\ op = "formatRegressionEquation" /\ pc = "call"
    /\ Finish(formatRegressionEquation(inp.slope, inp.intercept))
    /\ UNCHANGED <<op, inp, loc>>
    /\ UNCHANGED outside

---------------------------------------------------------------------------
(* Inputs                                                                  *)

SeqsUpTo(S, n) == UNION {[1..k -> S] : k \in 0..n}

PriceValues == 0..MaxPrice

TwoLevels == {0, 1}

\* every short series over the price range, every series of two price levels
PriceSeries == SeqsUpTo(PriceValues, MaxShortLen) \cup SeqsUpTo(TwoLevels, MaxLen)

\* the line slope*i + 2 for i = 0..n-2, then a last price off its continuation
OutlierSeriesOf(n, slope, offset) ==
    [i \in 1..n |-> IF i < n THEN slope * (i - 1) + 2 ELSE slope * (i - 1) + 2 + offset]

\* flat and rising series of 3..MaxLen prices whose last price is an outlier
OutlierSeries ==
    {OutlierSeriesOf(n, slope, offset) :
        n \in 3..MaxLen, slope \in {0, 1}, offset \in {-2, -1, 1, 2}}

\* the series handed to the analysis
AnalysisSeries == PriceSeries \cup OutlierSeries

\* the multiplier argument: omitted, or one of these values
MultiplierArgs == {<<>>, <<-1>>, <<0>>, <<1>>, <<3>>}

\* the multiplier argument of the analysis: omitted, zero, negative
StdDevMultiplierArgs == {<<>>, <<0>>, <<-1>>}

\* the index axis 0..n-1 and the degenerate axis of n equal values
XAxes == UNION {{[i \in 1..k |-> i - 1], [i \in 1..k |-> 1]} : k \in 0..MaxLen}

\* deviations handed to calculateChannelBands: negative, zero, rational, irrational
Deviations == {Num(-1), Zero, Q(1, 2), Num(1), MathSqrt(Num(2))}

\* current prices handed to generateSignal
SignalPrices == 0..MaxSignalPrice

\* predicted prices handed to generateSignal
SignalPredictions == {9, 10}

\* <<upperBandValue, lowerBandValue>>: wide, narrow, collapsed and inverted channels
SignalBands == {<<20, 0>>, <<15, 5>>, <<11, 9>>, <<10, 10>>, <<5, 15>>}

\* slopes handed to formatRegressionEquation: negative, rounding to -0.0000, zero,
\* positive, NaN
FormatSlopes ==
    {Q(-3, 2), Q(-1, 3), Q(-1, 100000), Zero, Q(1, 8), Q(2, 3), Num(12), NaN}

\* intercepts handed to formatRegressionEquation; 1/8 lies halfway between 0.12, 0.13
FormatIntercepts ==
    {Num(-10), Q(-1, 6), Q(-1, 1000), Zero, Q(1, 8), Q(5, 6), Num(10), NaN, PInf}

NoOutcome == [kind |-> "none"]

\* no request has been made to the route
NoRequest ==
    [revision |-> 0, symbol |-> <<>>, daysParam |-> <<>>, pc |-> "none", days |-> <<>>,
     closePrices |-> <<>>, fetches |-> 0, responses |-> <<>>]

ApiIdle == api = NoRequest

\* no WatchlistButton is mounted
NoButton ==
    [mounted |-> FALSE, added |-> FALSE, isPending |-> FALSE, clicks |-> 0,
     pending |-> <<>>, results |-> <<>>, toasts |-> <<>>, callbacks |-> <<>>]

ButtonIdle == button = NoButton

\* no LinearRegressionChannel is mounted; lines 16-19 give the first state
NoChart ==
    [mounted |-> FALSE, symbol |-> "", selectedPeriod |-> 90, data |-> <<>>,
     loading |-> TRUE, error |-> <<>>, inflight |-> <<>>, selections |-> 0]

ChartIdle == chart = NoChart

\* the collection before any server action has connected to it
NoWatchlist == [connected |-> FALSE, uniqueIndex |-> FALSE, entries |-> <<>>, calls |-> <<>>]

WatchlistIdle == watchlist = NoWatchlist

\* no WatchlistManager is mounted
NoManager ==
    [mounted |-> FALSE, items |-> {}, selectedItems |-> {}, isPending |-> FALSE,
     deleting |-> <<>>, removed |-> {}, done |-> <<>>]

ManagerIdle == manager = NoManager

\* the engine is called on its own: nothing outside it is running
OutsideIdle == ApiIdle /\ ButtonIdle /\ ChartIdle /\ WatchlistIdle /\ ManagerIdle

\* the record of a call that has started: the function, its arguments as passed
Started(f, args) == [op |-> f, args |-> args, out |-> NoOutcome]

\* the first call starts: no stage has run, nothing has been returned or thrown
Fresh ==
    /\ loc = NoLocals /\ out = NoOutcome /\ calls = <<Started(op, inp)>>
    /\ OutsideIdle

InitAnalyze ==
    /\ op = "calculateRegressionChannel"
    /\ inp \in [prices : AnalysisSeries, stdDevMultiplier : StdDevMultiplierArgs]
    /\ pc = "check"
    /\ Fresh

InitRegression ==
    /\ op = "calculateLinearRegression"
    /\ inp \in [xValues : XAxes, yValues : PriceSeries]
    /\ pc = "call"
    /\ Fresh

InitDeviation ==
    /\ op = "calculateStandardDeviation"
    /\ inp \in [actualValues : SeqsUpTo(PriceValues, MaxDevLen),
                predictedValues : SeqsUpTo(TwoLevels, MaxDevLen)]
    /\ pc = "call"
    /\ Fresh

InitBands ==
    /\ op = "calculateChannelBands"
    /\ inp \in [predictions : SeqsUpTo(PriceValues, MaxDevLen),
                standardDeviation : Deviations,
                multiplier : MultiplierArgs]
    /\ pc = "call"
    /\ Fresh

InitSignal ==
    /\ op = "generateSignal"
    /\ \E b \in SignalBands :
          inp \in [currentPrice : SignalPrices, predictedPrice : SignalPredictions,
                   upperBandValue : {b[1]}, lowerBandValue : {b[2]}]
    /\ pc = "call"
    /\ Fresh

InitFormat ==
    /\ op = "formatRegressionEquation"
    /\ inp \in [slope : FormatSlopes, intercept : FormatIntercepts]
    /\ pc = "call"
    /\ Fresh

Init ==
    InitAnalyze \/ InitRegression \/ InitDeviation \/ InitBands \/ InitSignal \/ InitFormat

Next ==
    \/ AnalyzeCheck
    \/ AnalyzeRegression
    \/ AnalyzeDeviation
    \/ AnalyzeBands
    \/ AnalyzeSignal
    \/ AnalyzeReturn
    \/ CallRegression
    \/ CallDeviation
    \/ CallBands
    \/ CallSignal
    \/ CallFormat

Spec == Init /\ [][Next]_vars

---------------------------------------------------------------------------
(* The analysis of prices quoted to the cent, computed in binary64         *)

\* prices in hundredths: 0.10, 0.20, 0.23, 0.30, 0.36
Hundredths == {10, 20, 23, 30, 36}

\* every series of two of these prices, every series of three of 0.10, 0.20, 0.30
DecimalSeries == [1..2 -> Hundredths] \cup [1..3 -> {10, 20, 30}]

InitBinary64 ==
    /\ op = "calculateRegressionChannel"
    /\ inp \in [prices : DecimalSeries, stdDevMultiplier : {<<>>}, decimals : {2}]
    /\ pc = "check"
    /\ Fresh

NextBinary64 ==
    \/ AnalyzeCheck
    \/ AnalyzeRegression
    \/ AnalyzeDeviation
    \/ AnalyzeBands
    \/ AnalyzeSignal
    \/ AnalyzeReturn

SpecBinary64 == InitBinary64 /\ [][NextBinary64]_vars

---------------------------------------------------------------------------
(* A caller making several calls, one after another                        *)

StartOf(f) == IF f = "calculateRegressionChannel" THEN "check" ELSE "call"

\* the analyses a caller asks for: the multiplier omitted, given as 2, given as 0
CallerAnalyses ==
    {<<"calculateRegressionChannel", [prices |-> s, stdDevMultiplier |-> m]>> :
        s \in {<<0, 0, 0, 0, 1>>}, m \in {<<>>, <<2>>, <<0>>}}
    \cup {<<"calculateRegressionChannel", [prices |-> s, stdDevMultiplier |-> <<>>]>> :
            s \in {<<1>>, <<0, 1>>}}

\* one call of each exported stage
CallerStageCalls ==
    {<<"calculateLinearRegression", [xValues |-> <<0, 1>>, yValues |-> <<0, 1>>]>>,
     <<"calculateStandardDeviation",
       [actualValues |-> <<0, 1>>, predictedValues |-> <<1, 1>>]>>,
     <<"calculateChannelBands",
       [predictions |-> <<0, 1>>, standardDeviation |-> Num(1), multiplier |-> <<>>]>>,
     <<"generateSignal",
       [currentPrice |-> 3, predictedPrice |-> 10,
        upperBandValue |-> 20, lowerBandValue |-> 0]>>,
     <<"formatRegressionEquation", [slope |-> Q(1, 8), intercept |-> Q(-1, 6)]>>}

CallerCalls == CallerAnalyses \cup CallerStageCalls

InitCalls ==
    /\ \E c \in CallerCalls : op = c[1] /\ inp = c[2]
    /\ pc = StartOf(op)
    /\ Fresh

\* the caller calls again: with the objects of the call before, or with others
NextCall ==
    /\ pc = "done" /\ Len(calls) < MaxCalls
    /\ \/ UNCHANGED <<op, inp>>
       \/ \E c \in CallerCalls : op' = c[1] /\ inp' = c[2]
    /\ pc' = StartOf(op')
    /\ loc' = NoLocals
    /\ out' = NoOutcome
    /\ calls' = Append(calls, Started(op', inp'))
    /\ UNCHANGED outside

NextCalls == Next \/ NextCall

SpecCalls == InitCalls /\ [][NextCalls]_vars

---------------------------------------------------------------------------
(* GET /api/ml/regression-channel (route.ts)                               *)
(*                                                                         *)
(* route.ts holds two revisions of the handler: revision 1 fetches from    *)
(* Alpha Vantage (lines 1-224), revision 2 from Yahoo Finance (lines       *)
(* 225-485).  A query string is the sequence of its characters, an error   *)
(* message the sequence of its words and punctuation marks.                *)

DefaultDays == 90

MinDays == 10

MaxDays == 365

MinDataPoints == 10

\* the longest history the data provider returns
MaxRows == 12

Digits == <<"0", "1", "2", "3", "4", "5", "6", "7", "8", "9">>

IsDigit(c) == \E k \in 1..10 : Digits[k] = c

DigitValue(c) == (CHOOSE k \in 1..10 : Digits[k] = c) - 1

IsWhiteSpace(c) == c \in {" ", "\t", "\n"}

RECURSIVE TrimStart(_)
TrimStart(s) ==
    IF s # <<>> /\ IsWhiteSpace(Head(s)) THEN TrimStart(Tail(s)) ELSE s

\* the value of the longest prefix of decimal digits, <<>> when there is none
RECURSIVE DigitsPrefix(_, _)
DigitsPrefix(s, acc) ==
    IF s # <<>> /\ IsDigit(Head(s))
    THEN DigitsPrefix(Tail(s), <<Param(acc, 0) * 10 + DigitValue(Head(s))>>)
    ELSE acc

\* parseInt(s, 10): leading white space, a sign, then digits; NaN without a digit
ParseInt(s) ==
    LET t == TrimStart(s)
        negative == t # <<>> /\ Head(t) = "-"
        signed == t # <<>> /\ Head(t) \in {"+", "-"}
        magnitude == DigitsPrefix(IF signed THEN Tail(t) ELSE t, <<>>)
    IN  IF magnitude = <<>> THEN NaN
        ELSE Num(IF negative THEN -magnitude[1] ELSE magnitude[1])

\* searchParams.get: <<>> for null, <<v>> for a parameter that is present;
\* null and the empty string are falsy
Truthy(param) == param # <<>> /\ Len(param[1]) > 0

\* `!symbol`
NoSymbol(symbol) == symbol \in {<<>>, <<"">>}

\* `daysParam ? parseInt(daysParam, 10) : 90`
Days(daysParam) == IF Truthy(daysParam) THEN ParseInt(daysParam[1]) ELSE Num(DefaultDays)

\* `days < 10 || days > 365`
DaysOutOfRange(days) == Lt(days, Num(MinDays)) \/ Lt(Num(MaxDays), days)

ToUpperCase(symbol) == IF symbol = "aapl" THEN "AAPL" ELSE symbol

\* String.prototype.includes, on words
Includes(message, phrase) ==
    \E i \in 1..(Len(message) - Len(phrase) + 1) :
        SubSeq(message, i, i + Len(phrase) - 1) = phrase

SymbolRequired == "Symbol parameter is required"

DaysRange == "Days parameter must be between 10 and 365"

InsufficientHistory(revision) ==
    IF revision = 1
    THEN "Insufficient historical data for analysis (minimum 10 days required)"
    ELSE "Insufficient historical data for analysis"

CalculationFailed == "Failed to calculate regression channel"

NoHistoricalData == <<"No", "historical", "data", "available", "for", "this", "symbol">>

NoValidPrices(symbol) ==
    <<"No", "valid", "price", "data", "found", "for", symbol, ".", "The", "symbol",
      "may", "be", "delisted", "or", "have", "incomplete", "data", ".">>

InvalidSymbol(symbol) ==
    <<"Invalid", "stock", "symbol", ":", symbol, ".", "Please", "verify", "the",
      "ticker", "symbol", "is", "correct", ".">>

SymbolNotFound(symbol) ==
    <<"Stock", "symbol", "not", "found", ":", symbol, ".", "The", "symbol", "may",
      "be", "delisted", "or", "incorrect", ".">>

RateLimit ==
    <<"Yahoo", "Finance", "rate", "limit", "reached", ".", "Please", "try", "again",
      "in", "a", "few", "moments", ".">>

FailedToFetch(symbol, message) == <<"Failed", "to", "fetch", "data", "for", symbol, ":">> \o message

FailedToFetchUnknown(symbol) ==
    <<"Failed", "to", "fetch", "historical", "data", "from", "Yahoo", "Finance", "for",
      symbol>>

\* the messages of the engine's errors, in words
EngineMessage(e) ==
    IF e = InsufficientData
    THEN <<"Need", "at", "least", "2", "price", "points", "for", "regression", "analysis">>
    ELSE <<"Invalid", "input", ":", "arrays", "must", "have", "same", "non-zero", "length">>

\* the whole part of a finite number
IntegerOf(x) == x.a[1] \div x.a[2]

\* Array.prototype.slice(start), start being any number
SliceFrom(rows, start) ==
    LET k == IF IsNaN(start) THEN 0 ELSE IntegerOf(start)
        from == IF k < 0 THEN IMax(Len(rows) + k, 0) ELSE IMin(k, Len(rows))
    IN  SubSeq(rows, from + 1, Len(rows))

\* Array.prototype.slice(0, end), end being any number
SliceTo(rows, end) ==
    LET k == IF IsNaN(end) THEN 0 ELSE IntegerOf(end)
        to == IF k < 0 THEN IMax(Len(rows) + k, 0) ELSE IMin(k, Len(rows))
    IN  SubSeq(rows, 1, to)

Reverse(rows) == [i \in 1..Len(rows) |-> rows[Len(rows) + 1 - i]]

\* a row of the history is <<close>>, or <<>> when a field of it is missing
Complete(row) == row # <<>>

ClosePrices(rows) ==
    LET complete == SelectSeq(rows, Complete) IN [i \in 1..Len(complete) |-> complete[i][1]]

\* revision 1, lines 9-91: the rows come newest first; every failure is an Error
fetchHistoricalData1(symbol, days, provider) ==
    IF provider.kind # "rows" THEN Throw(provider.message)
    ELSE IF provider.rows = <<>> THEN Throw(NoHistoricalData)
    ELSE Return(ClosePrices(Reverse(SliceTo(Reverse(provider.rows), days))))

\* revision 2, lines 316-334: what the catch of fetchHistoricalData throws
Rethrown(symbol, error) ==
    IF error = <<>> THEN FailedToFetchUnknown(symbol)
    ELSE LET message == error[1] IN
        IF \/ Includes(message, <<"No", "data", "found">>)
           \/ Includes(message, <<"Quote", "not", "found">>)
           \/ Includes(message, <<"Invalid", "cookie">>)
        THEN InvalidSymbol(symbol)
        ELSE IF Includes(message, <<"Not", "Found">>) \/ Includes(message, <<"404">>)
        THEN SymbolNotFound(symbol)
        ELSE IF Includes(message, <<"Too", "Many", "Requests">>) \/ Includes(message, <<"429">>)
        THEN RateLimit
        ELSE FailedToFetch(symbol, message)

\* revision 2, lines 240-335
fetchHistoricalData2(symbol, days, provider) ==
    IF provider.kind = "thrown" THEN Throw(Rethrown(symbol, <<>>))
    ELSE IF provider.kind = "error" THEN Throw(Rethrown(symbol, <<provider.message>>))
    ELSE IF provider.rows = <<>> THEN Throw(Rethrown(symbol, <<NoHistoricalData>>))
    ELSE LET closePrices == ClosePrices(SliceFrom(provider.rows, Neg(days))) IN
         IF closePrices = <<>>
         THEN Throw(Rethrown(symbol, <<NoValidPrices(symbol)>>))
         ELSE Return(closePrices)

fetchHistoricalData(revision, symbol, days, provider) ==
    IF revision = 1 THEN fetchHistoricalData1(symbol, days, provider)
    ELSE fetchHistoricalData2(symbol, days, provider)

\* faulty variant: the history is not checked for its length
InsufficientHistoricalDataUnchecked(closePrices) == FALSE

\* lines 120 and 370
InsufficientHistoricalData(closePrices) == Len(closePrices) < MinDataPoints

\* the status the catch of GET answers with: lines 181-190 and 440-453
CatchStatus(revision, message) ==
    IF revision = 1 THEN 500
    ELSE IF \/ Includes(message, <<"Invalid", "stock", "symbol">>)
            \/ Includes(message, <<"not", "found">>)
            \/ Includes(message, <<"No", "historical", "data">>)
    THEN 404
    ELSE 500

\* NextResponse.json: the request has its answer
Responded(status, error, equation) ==
    [api EXCEPT !.pc = "done",
                !.responses = Append(@, [status |-> status, error |-> error,
                                         equation |-> equation])]

\* the query parameter `symbol`: absent, empty, a ticker
SymbolParams == {<<>>, <<"">>, <<"aapl">>}

\* the query parameter `days`: absent, empty, and texts parseInt reads differently
DaysParams ==
    {<<>>, <<<<>>>>, <<<<"a", "b", "c">>>>, <<<<"9">>>>, <<<<"1", "0">>>>,
     <<<<"3", "6", "5">>>>, <<<<"3", "6", "6">>>>, <<<<"1", "2", "a", "b", "c">>>>,
     <<<<" ", "1", "1">>>>, <<<<"-", "5">>>>, <<<<"1", "0", ".", "5">>>>,
     <<<<"1", "e", "3">>>>}

\* closing prices on a line, and off it
CloseValues == {[i \in 1..MaxRows |-> i], [i \in 1..MaxRows |-> (i * i) % 7]}

HistoryLengths == {0, MinDataPoints - 1, MinDataPoints, MaxRows}

\* histories with every row complete
CompleteHistories ==
    {[i \in 1..k |-> <<close[i]>>] : k \in HistoryLengths, close \in CloseValues}

\* histories whose second row misses a field
GappedHistories ==
    {[i \in 1..k |-> IF i = 2 THEN <<>> ELSE <<close[i]>>] :
        k \in HistoryLengths \ {0}, close \in CloseValues}

\* what the data provider can answer a fetch with
ProviderOutcomes(revision) ==
    IF revision = 1
    THEN {[kind |-> "rows", rows |-> h] : h \in CompleteHistories}
         \cup {[kind |-> "failure", message |-> m] :
                 m \in {<<"Alpha", "Vantage", "API", "key", "not", "configured">>,
                        <<"Failed", "to", "fetch", "historical", "data", ":", "503", "-">>,
                        <<"Alpha", "Vantage", "API", "Error", ":", "Invalid", "API", "call">>,
                        <<"API", "rate", "limit", "reached", ".", "Please", "try", "again",
                          "later", ".">>,
                        <<"fetch", "failed">>}}
    ELSE {[kind |-> "rows", rows |-> h] : h \in CompleteHistories \cup GappedHistories}
         \cup {[kind |-> "error", message |-> m] :
                 m \in {<<"No", "data", "found", ",", "symbol", "may", "be", "delisted">>,
                        <<"Not", "Found">>,
                        <<"Too", "Many", "Requests">>,
                        <<"socket", "hang", "up">>}}
         \cup {[kind |-> "thrown"]}

EngineVars == <<op, inp, pc, loc, out, calls>>

\* GET up to its await: the query is read and validated, then the fetch starts
GetStart ==
    /\ api.pc = "start"
    /\ \E days \in {Days(api.daysParam)} :
          IF NoSymbol(api.symbol)
          THEN api' = Responded(400, SymbolRequired, <<>>)
          ELSE IF DaysOutOfRange(days)
          THEN api' = Responded(400, DaysRange, <<>>)
          ELSE api' = [api EXCEPT !.days = <<days>>, !.pc = "fetching",
                                  !.fetches = @ + 1]
    /\ UNCHANGED <<EngineVars, button, chart, watchlist, manager>>

\* fetchHistoricalData settles: GET answers, or calls the engine
GetFetched ==
    /\ api.pc = "fetching"
    /\ \E provider \in ProviderOutcomes(api.revision) :
       \E historicalData \in {fetchHistoricalData(api.revision, ToUpperCase(api.symbol[1]),
                                                  api.days[1], provider)} :
          IF ~Returned(historicalData)
          THEN /\ api' = Responded(CatchStatus(api.revision, historicalData.error),
                                   CalculationFailed, <<>>)
               /\ UNCHANGED EngineVars
          ELSE IF InsufficientHistoricalData(historicalData.value)
          THEN /\ api' = Responded(400, InsufficientHistory(api.revision), <<>>)
               /\ UNCHANGED EngineVars
          ELSE /\ api' = [api EXCEPT !.closePrices = historicalData.value,
                                     !.pc = "analyzing"]
               /\ op' = "calculateRegressionChannel"
               /\ inp' = [prices |-> historicalData.value, stdDevMultiplier |-> <<2>>]
               /\ pc' = "check"
               /\ loc' = NoLocals
               /\ out' = NoOutcome
               /\ calls' = Append(calls, Started(op', inp'))
    /\ UNCHANGED <<button, chart, watchlist, manager>>

\* the engine has ended: GET answers with the analysis, or from its catch
GetRespond ==
    /\ api.pc = "analyzing" /\ pc = "done"
    /\ IF Returned(out)
       THEN \E equation \in {formatRegressionEquation(out.value.regression.slope,
                                                      out.value.regression.intercept)} :
               api' = Responded(200, "", equation.value)
       ELSE api' = Responded(CatchStatus(api.revision, EngineMessage(out.error)),
                             CalculationFailed, <<>>)
    /\ UNCHANGED <<EngineVars, button, chart, watchlist, manager>>

\* the engine before the handler has called it
EngineIdle ==
    /\ op = "none" /\ inp = <<>> /\ pc = "idle"
    /\ loc = NoLocals /\ out = NoOutcome /\ calls = <<>>

InitApi ==
    /\ EngineIdle /\ ButtonIdle /\ ChartIdle /\ WatchlistIdle /\ ManagerIdle
    /\ \E revision \in {1, 2}, symbol \in SymbolParams, daysParam \in DaysParams :
          api = [NoRequest EXCEPT !.revision = revision, !.symbol = symbol,
                                  !.daysParam = daysParam, !.pc = "start"]

NextApi ==
    \/ GetStart
    \/ GetFetched
    \/ AnalyzeCheck
    \/ AnalyzeRegression
    \/ AnalyzeDeviation
    \/ AnalyzeBands
    \/ AnalyzeSignal
    \/ AnalyzeReturn
    \/ GetRespond

SpecApi == InitApi /\ [][NextApi]_vars

---------------------------------------------------------------------------
(* WatchlistButton (WatchlistButton.tsx)                                   *)
(*                                                                         *)
(* startTransition is given an async function: isPending is true from the  *)
(* click until the server action the function awaits has settled, and the  *)
(* click's state update is rendered before the next click is delivered.    *)

\* clicks on one button
MaxClicks == 4

Symbol == "AAPL"

\* the button while disabled delivers no click: lines 67 and 92
Disabled(isPending) == isPending

\* handleClick up to its await: the transition starts and calls the server action
ButtonClick ==
    /\ button.mounted /\ button.clicks < MaxClicks
    /\ ~Disabled(button.isPending)
    /\ button' = [button EXCEPT
                     !.isPending = TRUE,
                     !.clicks = @ + 1,
                     !.pending = Append(@, IF button.added THEN "removeFromWatchlist"
                                                           ELSE "addToWatchlist")]
    /\ UNCHANGED <<EngineVars, api, chart, watchlist, manager>>

\* faulty variant: the state flipped whatever the result says
SettledOptimistic(action, result) ==
    [added |-> action = "addToWatchlist",
     toasts |-> <<IF result = "success" THEN "done" ELSE "result.message">>,
     callbacks |-> IF result = "success"
                   THEN <<<<Symbol, action = "addToWatchlist">>>> ELSE <<>>]

\* what the handler does with the result of a server action: lines 28-46
Settled(action, result) ==
    IF result = "success"
    THEN [added |-> action = "addToWatchlist",
          toasts |-> <<IF action = "addToWatchlist" THEN "added to watchlist"
                                                   ELSE "removed from watchlist">>,
          callbacks |-> <<<<Symbol, action = "addToWatchlist">>>>]
    ELSE [added |-> button.added,
          toasts |-> <<IF result = "failure" THEN "result.message"
                       ELSE "Something went wrong. Please try again.">>,
          callbacks |-> <<>>]

\* a server action settles: with success, with success: false, or by throwing
ButtonSettle ==
    /\ button.mounted
    /\ \E i \in 1..Len(button.pending), result \in {"success", "failure", "throw"} :
       \E after \in {Settled(button.pending[i], result)} :
          button' = [button EXCEPT
                        !.added = after.added,
                        !.toasts = @ \o after.toasts,
                        !.callbacks = @ \o after.callbacks,
                        !.results = Append(@, <<button.pending[i], result>>),
                        !.pending = SubSeq(@, 1, i - 1) \o SubSeq(@, i + 1, Len(@)),
                        !.isPending = Len(button.pending) > 1]
    /\ UNCHANGED <<EngineVars, api, chart, watchlist, manager>>

InitButton ==
    /\ EngineIdle /\ ApiIdle /\ ChartIdle /\ WatchlistIdle /\ ManagerIdle
    /\ \E isInWatchlist \in BOOLEAN :
          button = [NoButton EXCEPT !.mounted = TRUE, !.added = isInWatchlist]

NextButton == ButtonClick \/ ButtonSettle

SpecButton == InitButton /\ [][NextButton]_vars

---------------------------------------------------------------------------
(* addToWatchlist and removeFromWatchlist (watchlist.actions.ts)           *)
(*                                                                         *)
(* A server action runs up to each await that reads or writes the          *)
(* collection; between two awaits other calls run.  The schema of the      *)
(* collection is not part of the sources: whether it has a unique index    *)
(* on (userId, symbol) is fixed when the collection is created.            *)

\* server actions called in one run
MaxActions == 3

NotAuthenticated == "User not authenticated"

AlreadyInWatchlist == "Stock already in watchlist"

AddedToWatchlist == "Added to watchlist"

FailedToAdd == "Failed to add to watchlist"

NotInWatchlist == "Stock not in watchlist"

RemovedFromWatchlist == "Removed from watchlist"

\* the documents of the user with this symbol
Matching(entries, symbol) == {k \in 1..Len(entries) : entries[k] = symbol}

\* Watchlist.findOne: some document, or null
FindOne(entries, symbol) == Matching(entries, symbol) # {}

\* Watchlist.deleteOne: the first matching document is deleted, if there is one
DeleteOne(entries, symbol) ==
    IF Matching(entries, symbol) = {} THEN entries
    ELSE LET k == CHOOSE k \in Matching(entries, symbol) :
                     \A m \in Matching(entries, symbol) : k <= m
         IN  SubSeq(entries, 1, k - 1) \o SubSeq(entries, k + 1, Len(entries))

\* the calls that have been made and have not returned
Running == {i \in 1..Len(watchlist.calls) : watchlist.calls[i].pc # "done"}

\* a client calls a server action, with or without a session
Invoke ==
    /\ watchlist.connected /\ Len(watchlist.calls) < MaxActions
    /\ \E fn \in {"addToWatchlist", "removeFromWatchlist"},
          symbol \in {"aapl", "AAPL"}, session \in BOOLEAN :
          watchlist' = [watchlist EXCEPT !.calls = Append(@,
              [fn |-> fn, symbol |-> symbol, session |-> session, pc |-> "getSession",
               during |-> Running, wrote |-> FALSE, result |-> <<>>])]
    /\ UNCHANGED <<EngineVars, api, button, chart, manager>>

Result(success, message) == <<[success |-> success, message |-> message]>>

\* lines 98-104 and 149-155: the session is read, then the database connected
GetSession ==
    /\ \E i \in Running :
          /\ watchlist.calls[i].pc = "getSession"
          /\ LET call == watchlist.calls[i] IN
             watchlist' = [watchlist EXCEPT !.calls[i] =
                IF ~call.session
                THEN [call EXCEPT !.pc = "done",
                                  !.result = Result(FALSE, NotAuthenticated)]
                ELSE [call EXCEPT !.pc = IF call.fn = "addToWatchlist" THEN "findOne"
                                                                       ELSE "deleteOne"]]
    /\ UNCHANGED <<EngineVars, api, button, chart, manager>>

\* lines 106-113: the existing entry is looked up
AddFindOne ==
    /\ \E i \in Running :
          /\ watchlist.calls[i].pc = "findOne"
          /\ LET call == watchlist.calls[i] IN
             watchlist' = [watchlist EXCEPT !.calls[i] =
                IF FindOne(watchlist.entries, ToUpperCase(call.symbol))
                THEN [call EXCEPT !.pc = "done",
                                  !.result = Result(FALSE, AlreadyInWatchlist)]
                ELSE [call EXCEPT !.pc = "create"]]
    /\ UNCHANGED <<EngineVars, api, button, chart, manager>>

\* Watchlist.create fails on a duplicate key when the index is unique
CreateRejected(uniqueIndex, entries, symbol) == uniqueIndex /\ FindOne(entries, symbol)

\* lines 115-144: the price is fetched, the entry is created; a rejected
\* create is caught at line 141
AddCreate ==
    /\ \E i \in Running :
          /\ watchlist.calls[i].pc = "create"
          /\ LET symbol == ToUpperCase(watchlist.calls[i].symbol) IN
             IF CreateRejected(watchlist.uniqueIndex, watchlist.entries, symbol)
             THEN watchlist' = [watchlist EXCEPT
                     !.calls[i].pc = "done",
                     !.calls[i].result = Result(FALSE, FailedToAdd)]
             ELSE watchlist' = [watchlist EXCEPT
                     !.entries = Append(@, symbol),
                     !.calls[i].pc = "done",
                     !.calls[i].wrote = TRUE,
                     !.calls[i].result = Result(TRUE, AddedToWatchlist)]
    /\ UNCHANGED <<EngineVars, api, button, chart, manager>>

\* lines 157-166: the entry is deleted
RemoveDeleteOne ==
    /\ \E i \in Running :
          /\ watchlist.calls[i].pc = "deleteOne"
          /\ LET symbol == ToUpperCase(watchlist.calls[i].symbol) IN
             IF ~FindOne(watchlist.entries, symbol)
             THEN watchlist' = [watchlist EXCEPT
                     !.calls[i].pc = "done",
                     !.calls[i].result = Result(FALSE, NotInWatchlist)]
             ELSE watchlist' = [watchlist EXCEPT
                     !.entries = DeleteOne(@, symbol),
                     !.calls[i].pc = "done",
                     !.calls[i].wrote = TRUE,
                     !.calls[i].result = Result(TRUE, RemovedFromWatchlist)]
    /\ UNCHANGED <<EngineVars, api, button, chart, manager>>

InitWatchlist ==
    /\ EngineIdle /\ ApiIdle /\ ButtonIdle /\ ChartIdle /\ ManagerIdle
    /\ \E uniqueIndex \in BOOLEAN, entries \in {<<>>, <<"AAPL">>} :
          watchlist = [NoWatchlist EXCEPT !.connected = TRUE,
                                          !.uniqueIndex = uniqueIndex,
                                          !.entries = entries]

NextWatchlist == Invoke \/ GetSession \/ AddFindOne \/ AddCreate \/ RemoveDeleteOne

SpecWatchlist == InitWatchlist /\ [][NextWatchlist]_vars

---------------------------------------------------------------------------
(* WatchlistManager (QuickAlertModal.tsx, from line 256)                   *)
(*                                                                         *)
(* items and selectedItems are sets of symbols.  A handler reads the       *)
(* values of the render it was created in: handleBulkDelete keeps those    *)
(* of the click across its await.                                          *)

\* the stocks of initialItems
Stocks == {"AAPL", "MSFT", "TSLA"}

\* line 376: toggleSelection
ToggleSelection ==
    /\ manager.mounted
    /\ \E symbol \in manager.items :
          manager' = [manager EXCEPT !.selectedItems =
                         IF symbol \in @ THEN @ \ {symbol} ELSE @ \cup {symbol}]
    /\ UNCHANGED <<EngineVars, api, button, chart, watchlist>>

\* lines 396-402: handleBulkDelete up to its await; the button is shown while
\* something is selected and disabled while the transition is pending
BulkDeleteClick ==
    /\ manager.mounted
    /\ manager.selectedItems # {} /\ ~manager.isPending
    /\ manager' = [manager EXCEPT
                      !.isPending = TRUE,
                      !.deleting = <<[items |-> manager.items,
                                      selectedItems |-> manager.selectedItems]>>]
    /\ UNCHANGED <<EngineVars, api, button, chart, watchlist>>

\* lines 407-414: the state set once the removals have settled; `clicked` are
\* the items and the selection of the render of the click
AfterBulkDelete(now, clicked, succeeded) ==
    IF succeeded # {}
    THEN [items |-> clicked.items \ clicked.selectedItems, selectedItems |-> {}]
    ELSE [items |-> now.items, selectedItems |-> now.selectedItems]

\* Promise.all settles: every removal has returned success or failure
BulkDeleteSettle ==
    /\ manager.mounted /\ manager.deleting # <<>>
    /\ \E succeeded \in SUBSET manager.deleting[1].selectedItems :
       \E after \in {AfterBulkDelete(manager, manager.deleting[1], succeeded)} :
          manager' = [manager EXCEPT
                         !.items = after.items,
                         !.selectedItems = after.selectedItems,
                         !.isPending = FALSE,
                         !.deleting = <<>>,
                         !.removed = @ \cup succeeded,
                         !.done = <<[before |-> manager.items,
                                     after |-> after.items,
                                     succeeded |-> succeeded,
                                     failed |-> manager.deleting[1].selectedItems
                                                   \ succeeded]>>]
    /\ UNCHANGED <<EngineVars, api, button, chart, watchlist>>

\* lines 770-785: the WatchlistButton of a row has removed its stock
RowRemoved ==
    /\ manager.mounted
    /\ \E symbol \in manager.items :
          manager' = [manager EXCEPT
                         !.items = @ \ {symbol},
                         !.selectedItems = @ \ {symbol},
                         !.removed = @ \cup {symbol}]
    /\ UNCHANGED <<EngineVars, api, button, chart, watchlist>>

InitManager ==
    /\ EngineIdle /\ ApiIdle /\ ButtonIdle /\ ChartIdle /\ WatchlistIdle
    /\ \E initialItems \in SUBSET Stocks :
          manager = [NoManager EXCEPT !.mounted = TRUE, !.items = initialItems]

NextManager == ToggleSelection \/ BulkDeleteClick \/ BulkDeleteSettle \/ RowRemoved

SpecManager == InitManager /\ [][NextManager]_vars

---------------------------------------------------------------------------
(* LinearRegressionChannel (LinearRegressionChannel.tsx)                   *)
(*                                                                         *)
(* The effect of lines 21-47 runs after every render in which symbol or    *)
(* selectedPeriod has changed and starts a fetch; nothing cancels a fetch  *)
(* that is under way.  A response is named by the request it answers.      *)

\* changes of the symbol or the period in one run
MaxSelections == 3

PeriodOptions == {30, 60, 90, 180, 365}

InitialPeriod == 90

ChartSymbols == {"AAPL", "MSFT"}

Request(symbol, period) == [symbol |-> symbol, period |-> period]

\* lines 24-27: the effect sets loading, clears the error and starts the fetch
Fetching(c, symbol, period) ==
    [c EXCEPT !.symbol = symbol,
              !.selectedPeriod = period,
              !.loading = TRUE,
              !.error = <<>>,
              !.inflight = Append(@, Request(symbol, period))]

\* lines 50, 80, 101: the loading view, the error view, nothing, or the chart
View(c) ==
    IF c.loading THEN "loading"
    ELSE IF c.error # <<>> THEN "error"
    ELSE IF c.data = <<>> THEN "none"
    ELSE "chart"

\* lines 180-194: a period button of the chart view is clicked
SelectPeriod ==
    /\ chart.mounted /\ chart.selections < MaxSelections
    /\ View(chart) = "chart"
    /\ \E period \in PeriodOptions \ {chart.selectedPeriod} :
          chart' = [Fetching(chart, chart.symbol, period) EXCEPT !.selections = @ + 1]
    /\ UNCHANGED <<EngineVars, api, button, watchlist, manager>>

\* the parent renders the mounted component with another symbol
ChangeSymbol ==
    /\ chart.mounted /\ chart.selections < MaxSelections
    /\ \E symbol \in ChartSymbols \ {chart.symbol} :
          chart' = [Fetching(chart, symbol, chart.selectedPeriod)
                       EXCEPT !.selections = @ + 1]
    /\ UNCHANGED <<EngineVars, api, button, watchlist, manager>>

\* the page of another symbol is opened and mounts a new component; the
\* responses to the fetches of the old one reach no component
Remount ==
    /\ chart.mounted /\ chart.selections < MaxSelections
    /\ \E symbol \in ChartSymbols \ {chart.symbol} :
          chart' = [Fetching([NoChart EXCEPT !.mounted = TRUE], symbol, InitialPeriod)
                       EXCEPT !.selections = chart.selections + 1]
    /\ UNCHANGED <<EngineVars, api, button, watchlist, manager>>

\* lines 28-42: the response is stored as data or as error, loading is cleared
Received(c, request, ok) ==
    IF ok THEN [c EXCEPT !.data = <<request>>, !.loading = FALSE]
    ELSE [c EXCEPT !.error = <<request>>, !.loading = FALSE]

\* a fetch under way completes, with an ok response or not
Respond ==
    /\ chart.mounted
    /\ \E i \in 1..Len(chart.inflight), ok \in BOOLEAN :
          chart' = [Received(chart, chart.inflight[i], ok) EXCEPT
                       !.inflight = SubSeq(@, 1, i - 1) \o SubSeq(@, i + 1, Len(@))]
    /\ UNCHANGED <<EngineVars, api, button, watchlist, manager>>

InitChart ==
    /\ EngineIdle /\ ApiIdle /\ ButtonIdle /\ WatchlistIdle /\ ManagerIdle
    /\ \E symbol \in ChartSymbols :
          chart = Fetching([NoChart EXCEPT !.mounted = TRUE], symbol, InitialPeriod)

NextChart == SelectPeriod \/ ChangeSymbol \/ Remount \/ Respond

SpecChart == InitChart /\ [][NextChart]_vars

---------------------------------------------------------------------------
(* The state read by the properties                                        *)

Done == pc = "done"

Analyzing == op = "calculateRegressionChannel"

\* a regression has just been fitted: by a direct call, or inside the analysis
HasFit ==
    \/ op = "calculateLinearRegression" /\ Done /\ Returned(out)
    \/ Analyzing /\ pc = "deviation" /\ inp.stdDevMultiplier = <<>>

FitX == IF Analyzing THEN loc.xValues ELSE NumSeq(inp.xValues)

FitY == IF Analyzing THEN Prices ELSE NumSeq(inp.yValues)

FitResult == IF Analyzing THEN loc.regression ELSE out.value

IsIndexAxis(xs) == \A i \in 1..Len(xs) : xs[i] = Num(i - 1)

AllEqual(ys) == \A i, j \in 1..Len(ys) : ys[i] = ys[j]

\* a fit over the index axis 0..n-1 with n >= 2
IndexFit == HasFit /\ IsIndexAxis(FitX) /\ Len(FitX) >= 2

\* sum of squared residuals of the line y = m*x + c on the fitted data
LineSsr(m, c) ==
    Sum([i \in 1..Len(FitY) |-> Square(Sub(FitY[i], Add(Mul(m, FitX[i]), c)))])

\* a deviation has just been computed: by a direct call, or inside the analysis
HasDeviation ==
    \/ op = "calculateStandardDeviation" /\ Done /\ Returned(out)
    \/ Analyzing /\ pc = "bands" /\ inp.stdDevMultiplier = <<>>

DevActual == IF Analyzing THEN Prices ELSE NumSeq(inp.actualValues)

DevPredicted == IF Analyzing THEN loc.regression.predictions ELSE NumSeq(inp.predictedValues)

DevResult == IF Analyzing THEN loc.standardDeviation ELSE out.value

\* bands have been returned: by a direct call, or as part of the analysis result
HasBands ==
    /\ op \in {"calculateChannelBands", "calculateRegressionChannel"}
    /\ Done /\ Returned(out)

BandPredictions == IF Analyzing THEN out.value.middleLine ELSE NumSeq(inp.predictions)

BandDeviation == IF Analyzing THEN out.value.standardDeviation ELSE inp.standardDeviation

BandMultiplier ==
    IF Analyzing THEN StdDevMultiplier ELSE Param(NumSeq(inp.multiplier), Num(MultiplierDefault))

\* a signal has just been generated: by a direct call, or inside the analysis
HasSignal ==
    \/ op = "generateSignal" /\ Done /\ Returned(out)
    \/ Analyzing /\ pc = "distances"

SigPrice == IF Analyzing THEN loc.currentPrice ELSE Num(inp.currentPrice)

SigPredicted == IF Analyzing THEN loc.predictedPrice ELSE Num(inp.predictedPrice)

SigUpper == IF Analyzing THEN loc.currentUpperBand ELSE Num(inp.upperBandValue)

SigLower == IF Analyzing THEN loc.currentLowerBand ELSE Num(inp.lowerBandValue)

SigResult ==
    IF Analyzing THEN [signal |-> loc.signal, strength |-> loc.strength] ELSE out.value

---------------------------------------------------------------------------
(* Properties                                                              *)

\* C1: the analysis of a price sequence of length 0 or 1 ends by throwing
\* InsufficientData, no stage has run and no local or partial result exists;
\* an empty sequence gets this error too, not the stages' InvalidInput.
C1_InsufficientData ==
    (Analyzing /\ Len(inp.prices) < 2) =>
        /\ pc \in {"check", "done"}
        /\ loc = NoLocals
        /\ Done => Threw(out, InsufficientData)

C1_Witness ==
    Analyzing /\ Done /\ inp.prices = <<>> /\ Threw(out, InsufficientData)

\* C2: calculateLinearRegression and calculateStandardDeviation throw InvalidInput
\* exactly when the first array is empty or the lengths differ, and return otherwise.
C2_InvalidInputExactly ==
    /\ (op = "calculateLinearRegression" /\ Done) =>
          IF Len(inp.xValues) = 0 \/ Len(inp.xValues) # Len(inp.yValues)
          THEN Threw(out, InvalidInput) ELSE Returned(out)
    /\ (op = "calculateStandardDeviation" /\ Done) =>
          IF Len(inp.actualValues) = 0 \/ Len(inp.actualValues) # Len(inp.predictedValues)
          THEN Threw(out, InvalidInput) ELSE Returned(out)

C2_Witness ==
    /\ op = "calculateStandardDeviation" /\ Done
    /\ inp.actualValues = <<1, 2>> /\ inp.predictedValues = <<1>>
    /\ Threw(out, InvalidInput)

\* C3: the analysis of a price sequence of length >= 2 never throws, whatever
\* the multiplier: every stage returns and the run is at a step of the analysis
\* until the result is returned, also when the variance or the channel width is
\* zero.
C3_NoErrorFromTwoPoints ==
    (Analyzing /\ Len(inp.prices) >= 2) =>
        /\ out.kind # "throw"
        /\ Done => Returned(out)
        /\ ~Done => pc \in AnalysisSteps

C3_Witness ==
    /\ Analyzing /\ Done /\ Returned(out)
    /\ Len(inp.prices) >= 3 /\ AllEqual(inp.prices)
    /\ out.value.channelWidth = Zero

\* C4 as stated: over the index axis with n >= 2, rSquared is 0 if and only if
\* all y values are equal.
C4_ZeroExactlyWhenConstant ==
    IndexFit => (Eq(FitResult.rSquared, Zero) <=> AllEqual(FitY))

\* C4 amended: equal y values give rSquared = 0, and rSquared is 0 exactly when
\* the fitted slope is 0, which a non-constant y can have.
C4_ZeroExactlyWhenSlopeZero ==
    IndexFit =>
        /\ AllEqual(FitY) => Eq(FitResult.rSquared, Zero)
        /\ Eq(FitResult.rSquared, Zero) <=> Eq(FitResult.slope, Zero)

C4_Witness ==
    /\ op = "calculateLinearRegression" /\ IndexFit
    /\ inp.yValues = <<0, 1, 0>>
    /\ Eq(FitResult.rSquared, Zero)

\* C5: over the index axis with n >= 2 and a non-constant y, rSquared lies in
\* [0,1]: the residual sum of squares never exceeds the total sum of squares.
C5_RSquaredInUnitInterval ==
    (IndexFit /\ ~AllEqual(FitY)) =>
        /\ Le(Zero, FitResult.rSquared)
        /\ Le(FitResult.rSquared, Num(1))
        /\ Le(SsResidual(FitY, FitResult.predictions),
              SsTotal(FitY, Div(Sum(FitY), Num(Len(FitY)))))

C5_Witness ==
    /\ IndexFit /\ ~AllEqual(FitY)
    /\ Lt(Zero, FitResult.rSquared)
    /\ Lt(FitResult.rSquared, Num(1))

\* the predictions are those of the returned line, which is made of numbers
OnReturnedLine ==
    /\ Len(FitResult.predictions) = Len(FitX)
    /\ IsFinite(FitResult.slope) /\ IsFinite(FitResult.intercept)
    /\ \A i \in 1..Len(FitX) :
          Eq(FitResult.predictions[i],
             Add(Mul(FitResult.slope, Num(i - 1)), FitResult.intercept))

\* C6 as stated: over the index axis with n >= 1, n = 1 included, the predictions
\* have length n and predictions[i] = slope*i + intercept for well-defined numbers
\* slope and intercept.
C6_OnLineFromOnePoint ==
    (HasFit /\ IsIndexAxis(FitX) /\ Len(FitX) >= 1) => OnReturnedLine

\* C6 amended: the same for n >= 2; for n = 1 the predictions have length 1 but
\* slope, intercept and the prediction are NaN (0/0).
C6_OnLineFromTwoPoints ==
    /\ IndexFit => OnReturnedLine
    /\ (HasFit /\ IsIndexAxis(FitX) /\ Len(FitX) = 1) =>
          /\ Len(FitResult.predictions) = 1
          /\ IsNaN(FitResult.slope) /\ IsNaN(FitResult.intercept)
          /\ IsNaN(FitResult.predictions[1])

C6_Witness ==
    /\ IndexFit /\ Len(FitX) >= 3
    /\ ~Eq(FitResult.slope, Zero) /\ ~Eq(FitResult.intercept, Zero)
    /\ OnReturnedLine

Half == Q(1, 2)

Perturbations == {Neg(Half), Zero, Half}

\* C7: over the index axis with n >= 2 the returned slope and intercept are the
\* closed-form values and the least-squares line: the residuals satisfy the two
\* normal equations, and no nearby line has a smaller sum of squared residuals.
C7_LeastSquares ==
    IndexFit =>
        LET n == Len(FitX)
            m == FitResult.slope
            c == FitResult.intercept
            sx == Sum(FitX)
            sy == Sum(FitY)
            sxy == Sum([i \in 1..n |-> Mul(FitX[i], FitY[i])])
            sxx == Sum([i \in 1..n |-> Mul(FitX[i], FitX[i])])
            res == [i \in 1..n |-> Sub(FitY[i], Add(Mul(m, FitX[i]), c))]
        IN  /\ Eq(Mul(m, Sub(Mul(Num(n), sxx), Mul(sx, sx))),
                  Sub(Mul(Num(n), sxy), Mul(sx, sy)))
            /\ Eq(Mul(c, Num(n)), Sub(sy, Mul(m, sx)))
            /\ Eq(Sum(res), Zero)
            /\ Eq(Sum([i \in 1..n |-> Mul(FitX[i], res[i])]), Zero)
            /\ \A dm \in Perturbations, dc \in Perturbations :
                  Le(LineSsr(m, c), LineSsr(Add(m, dm), Add(c, dc)))

C7_Witness ==
    /\ IndexFit /\ Len(FitX) >= 3
    /\ ~Eq(FitResult.slope, Zero)
    /\ Lt(Zero, LineSsr(FitResult.slope, FitResult.intercept))

\* C8: for equal-length non-empty arrays the deviation is >= 0, its square is the
\* mean (divisor n) of the squared differences, and it is 0 exactly when the two
\* arrays are equal element by element.
C8_PopulationDeviation ==
    HasDeviation =>
        /\ Ge(DevResult, Zero)
        /\ Eq(Square(DevResult),
              Div(Sum([i \in 1..Len(DevActual) |->
                          Square(Sub(DevActual[i], DevPredicted[i]))]),
                  Num(Len(DevActual))))
        /\ Eq(DevResult, Zero) <=>
              \A i \in 1..Len(DevActual) : Eq(DevActual[i], DevPredicted[i])

C8_Witness ==
    /\ op = "calculateStandardDeviation" /\ HasDeviation
    /\ Len(inp.actualValues) = 2
    /\ Lt(Zero, DevResult)

\* C9: at every index the upper band minus the lower band is
\* 2 * multiplier * deviation, and in the analysis result that is the reported
\* channelWidth.
C9_ConstantChannelWidth ==
    HasBands =>
        /\ \A i \in 1..Len(out.value.upperBand) :
              Eq(Sub(out.value.upperBand[i], out.value.lowerBand[i]),
                 Mul(Mul(Num(2), BandMultiplier), BandDeviation))
        /\ Analyzing =>
              \A i \in 1..Len(out.value.upperBand) :
                 Eq(Sub(out.value.upperBand[i], out.value.lowerBand[i]),
                    out.value.channelWidth)

C9_Witness ==
    /\ HasBands /\ Analyzing
    /\ Len(out.value.upperBand) >= 3
    /\ Lt(Zero, out.value.channelWidth)

\* C10: when the deviation and the multiplier are >= 0 the prediction lies
\* between the bands at every index; the bands are as long as the predictions.
C10_PredictionBetweenBands ==
    HasBands =>
        /\ Len(out.value.upperBand) = Len(BandPredictions)
        /\ Len(out.value.lowerBand) = Len(BandPredictions)
        /\ (Ge(BandDeviation, Zero) /\ Ge(BandMultiplier, Zero)) =>
              \A i \in 1..Len(BandPredictions) :
                 /\ Le(out.value.lowerBand[i], BandPredictions[i])
                 /\ Le(BandPredictions[i], out.value.upperBand[i])

C10_Witness ==
    /\ HasBands /\ op = "calculateChannelBands"
    /\ Len(BandPredictions) = 2
    /\ Lt(Zero, BandDeviation) /\ Lt(Zero, BandMultiplier)
    /\ Lt(out.value.lowerBand[1], out.value.upperBand[1])

C12_StrengthInRange ==
    HasSignal =>
        /\ IsFinite(SigResult.strength)
        /\ Le(Zero, SigResult.strength)
        /\ Le(SigResult.strength, Num(100))

\* the same number, NaN being the same as NaN
SameNumber(x, y) == (IsNaN(x) /\ IsNaN(y)) \/ Eq(x, y)

\* C13: the strength returned with BUY or SELL is min(100, |normalizedPosition| * 100)
\* and the strength returned with HOLD is 100 minus that, normalizedPosition being
\* the distance from the prediction in half channel widths (here
\* 2 * distance / width); when that quotient is NaN both sides are NaN.
C13_StrengthFormula ==
    HasSignal =>
        LET np == Div(Mul(Num(2), Sub(SigPrice, SigPredicted)), Sub(SigUpper, SigLower))
            capped == MathMin(Num(100), MathAbs(Mul(np, Num(100))))
        IN  /\ SigResult.signal \in {"BUY", "SELL"} => SameNumber(SigResult.strength, capped)
            /\ SigResult.signal = "HOLD" =>
                  SameNumber(SigResult.strength, Sub(Num(100), capped))

C13_Witness ==
    /\ op = "generateSignal" /\ HasSignal
    /\ inp = [currentPrice |-> 12, predictedPrice |-> 10,
              upperBandValue |-> 20, lowerBandValue |-> 0]
    /\ SigResult = [signal |-> "HOLD", strength |-> Num(80)]

SignalRank(signal) == CASE signal = "BUY" -> 0 [] signal = "HOLD" -> 1 [] signal = "SELL" -> 2

\* the signal generateSignal gives the price p, the other arguments as in the call
SignalFor(p) ==
    generateSignal(Num(p), Num(inp.predictedPrice),
                   Num(inp.upperBandValue), Num(inp.lowerBandValue)).value.signal

\* C14: with predictedPrice and the bands fixed and upper > lower, a higher price
\* never gets a lower signal in the order BUY < HOLD < SELL, and the signal is BUY
\* exactly for the prices at or below the one where normalizedPosition = -0.7
\* (20 * distance <= -7 * width), so HOLD and SELL never return below it.
C14_Monotone ==
    (op = "generateSignal" /\ HasSignal /\ inp.upperBandValue > inp.lowerBandValue) =>
        /\ \A p \in SignalPrices :
              inp.currentPrice <= p =>
                  SignalRank(out.value.signal) <= SignalRank(SignalFor(p))
        /\ out.value.signal = "BUY" <=>
              20 * (inp.currentPrice - inp.predictedPrice)
                  <= -7 * (inp.upperBandValue - inp.lowerBandValue)

C14_Witness ==
    /\ op = "generateSignal" /\ HasSignal
    /\ inp = [currentPrice |-> 4, predictedPrice |-> 10,
              upperBandValue |-> 20, lowerBandValue |-> 0]
    /\ out.value.signal = "HOLD"
    /\ SignalFor(3) = "BUY"
    /\ SignalFor(17) = "SELL"

\* the analysis has returned its result, the multiplier having been omitted
AnalysisReturned == Analyzing /\ Done /\ Returned(out) /\ inp.stdDevMultiplier = <<>>

\* the result of a constant series, the signal strength aside
FlatChannel(c) ==
    /\ Eq(out.value.regression.slope, Zero)
    /\ Eq(out.value.regression.intercept, c)
    /\ Eq(out.value.regression.rSquared, Zero)
    /\ Eq(out.value.standardDeviation, Zero)
    /\ \A i \in 1..Len(inp.prices) :
          Eq(out.value.upperBand[i], c) /\ Eq(out.value.lowerBand[i], c)
    /\ out.value.signal = "HOLD"

\* C15: for a constant series [c, ..., c] of length >= 2 and the default
\* multiplier the analysis returns slope 0, intercept c, rSquared 0,
\* standardDeviation 0, both bands equal to c at every index, signal HOLD and
\* signalStrength 100.
C15_ConstantSeries ==
    (AnalysisReturned /\ Len(inp.prices) >= 2 /\ AllEqual(inp.prices)) =>
        /\ FlatChannel(Num(inp.prices[1]))
        /\ Eq(out.value.signalStrength, Num(100))

\* prices[i] = a*i + b for integers a # 0 and b, i counted from 0
ExactlyLinear(prices) ==
    /\ prices[2] # prices[1]
    /\ \A i \in 2..Len(prices) : prices[i] - prices[i - 1] = prices[2] - prices[1]

\* the result of the series a*i + b, the signal strength aside
PerfectFit(a, b) ==
    /\ Eq(out.value.regression.slope, a)
    /\ Eq(out.value.regression.intercept, b)
    /\ Eq(out.value.regression.rSquared, Num(1))
    /\ Eq(out.value.standardDeviation, Zero)
    /\ Eq(out.value.predictedPrice, out.value.currentPrice)
    /\ out.value.signal = "HOLD"

\* C16: for an exactly linear, non-constant series prices[i] = a*i + b of length
\* >= 2 the analysis returns slope a, intercept b, rSquared 1, standardDeviation 0,
\* predictedPrice = currentPrice, signal HOLD and signalStrength 100.
C16_LinearSeries ==
    (AnalysisReturned /\ Len(inp.prices) >= 2 /\ ExactlyLinear(inp.prices)) =>
        /\ PerfectFit(Num(inp.prices[2] - inp.prices[1]), Num(inp.prices[1]))
        /\ Eq(out.value.signalStrength, Num(100))

\* the first n-1 prices lie on a flat or rising line and the last one does not
\* continue it
LastPointOutlier(prices) ==
    /\ Len(prices) >= 3
    /\ prices[2] >= prices[1]
    /\ \A i \in 2..(Len(prices) - 1) : prices[i] - prices[i - 1] = prices[2] - prices[1]
    /\ prices[Len(prices)] - prices[Len(prices) - 1] # prices[2] - prices[1]

OutlierAbove(prices) ==
    prices[Len(prices)] - prices[Len(prices) - 1] > prices[2] - prices[1]

\* |normalizedPosition| >= 0.7 for the last point and the signal on the outlier's
\* side: 20 * |currentPrice - predictedPrice| >= 7 * channelWidth
OutlierFlipsSignal ==
    /\ Ge(Mul(Num(20), MathAbs(Sub(out.value.currentPrice, out.value.predictedPrice))),
          Mul(Num(7), out.value.channelWidth))
    /\ out.value.signal = IF OutlierAbove(inp.prices) THEN "SELL" ELSE "BUY"

\* C17 as stated: for n >= 3, a single outlier after n-1 prices on a flat or rising
\* line gives |normalizedPosition| >= 0.7 and SELL (outlier above) or BUY (below),
\* the multiplier being the default.
C17_OutlierFlipsFromThree ==
    (AnalysisReturned /\ LastPointOutlier(inp.prices)) => OutlierFlipsSignal

\* C17 amended: the same for n >= 5; for n = 3 and n = 4 the signal is HOLD,
\* the outlier being less than 0.7 half-widths from the fitted line.
C17_OutlierFlipsFromFive ==
    (AnalysisReturned /\ LastPointOutlier(inp.prices)) =>
        IF Len(inp.prices) >= 5 THEN OutlierFlipsSignal
        ELSE /\ out.value.signal = "HOLD"
             /\ Lt(Mul(Num(20), MathAbs(Sub(out.value.currentPrice,
                                             out.value.predictedPrice))),
                   Mul(Num(7), out.value.channelWidth))

C17_Witness ==
    /\ AnalysisReturned
    /\ inp.prices = <<2, 3, 4, 5, 4>>
    /\ LastPointOutlier(inp.prices)
    /\ out.value.signal = "BUY"

\* the index axis 0, 1, ..., n-1
IndexAxis(n) == [i \in 1..n |-> Num(i - 1)]

\* C18: for n >= 2 the analysis returns, middleLine has n elements and middleLine[i]
\* is the i-th prediction of calculateLinearRegression over the axis 0..n-1 and the
\* prices; predictedPrice is the last element of middleLine and currentPrice the
\* last price.
C18_MiddleLineIsFit ==
    (Analyzing /\ Done /\ Len(inp.prices) >= 2) =>
        /\ Returned(out)
        /\ Len(out.value.middleLine) = Len(inp.prices)
        /\ LET fit == calculateLinearRegression(IndexAxis(Len(inp.prices)), Prices)
           IN  \A i \in 1..Len(inp.prices) :
                  Eq(out.value.middleLine[i], fit.value.predictions[i])
        /\ Eq(out.value.predictedPrice, out.value.middleLine[Len(inp.prices)])
        /\ Eq(out.value.currentPrice, Num(inp.prices[Len(inp.prices)]))

C18_Witness ==
    /\ Analyzing /\ Done /\ Returned(out)
    /\ inp.prices = <<0, 0, 1>>
    /\ out.value.middleLine = <<Q(-1, 6), Q(1, 3), Q(5, 6)>>
    /\ out.value.predictedPrice = Q(5, 6)
    /\ out.value.currentPrice = Num(1)

InPercentRange(x) == Le(Zero, x) /\ Le(x, Num(100))

\* the latest price lies between the latest lower and upper band values
PriceInsideBand ==
    /\ Le(out.value.lowerBand[Len(inp.prices)], out.value.currentPrice)
    /\ Le(out.value.currentPrice, out.value.upperBand[Len(inp.prices)])

\* C19: in the result of the analysis distanceFromUpper is
\* (upperBand[n-1] - currentPrice) / channelWidth * 100 and distanceFromLower is
\* (currentPrice - lowerBand[n-1]) / channelWidth * 100, and each lies in [0,100]
\* exactly when the latest price is inside the band (default multiplier).
C19_Distances ==
    AnalysisReturned =>
        /\ SameNumber(out.value.distanceFromUpper,
                      Mul(Div(Sub(out.value.upperBand[Len(inp.prices)],
                                  out.value.currentPrice),
                              out.value.channelWidth), Num(100)))
        /\ SameNumber(out.value.distanceFromLower,
                      Mul(Div(Sub(out.value.currentPrice,
                                  out.value.lowerBand[Len(inp.prices)]),
                              out.value.channelWidth), Num(100)))
        /\ InPercentRange(out.value.distanceFromUpper) <=> PriceInsideBand
        /\ InPercentRange(out.value.distanceFromLower) <=> PriceInsideBand

\* the calls of the analysis that have ended
AnalysesEnded ==
    {i \in 1..Len(calls) :
        calls[i].op = "calculateRegressionChannel" /\ calls[i].out # NoOutcome}

\* C20: the analysis keeps nothing between calls and leaves its arguments alone:
\* any two of its calls with equal prices and multiplier argument, whatever their
\* order and the calls between them, end with equal outcomes; each call starts
\* with no locals; during and after every call the arguments are as passed.
C20_NoStateNoMutation ==
    /\ \A i \in AnalysesEnded, j \in AnalysesEnded :
          calls[i].args = calls[j].args => calls[i].out = calls[j].out
    /\ pc = StartOf(op) => loc = NoLocals
    /\ op = calls[Len(calls)].op
    /\ inp = calls[Len(calls)].args

C20_Witness ==
    /\ Len(calls) = 3 /\ Done
    /\ calls[1].op = "calculateRegressionChannel"
    /\ calls[1].args.prices = <<0, 0, 0, 0, 1>>
    /\ calls[2].op = "calculateLinearRegression"
    /\ calls[3].op = calls[1].op /\ calls[3].args = calls[1].args
    /\ calls[3].out = calls[1].out
    /\ Returned(out) /\ out.value.signal = "SELL"

\* an equation has been formatted from two finite numbers
HasEquation ==
    /\ op = "formatRegressionEquation" /\ Done /\ Returned(out)
    /\ IsFinite(inp.slope) /\ IsFinite(inp.intercept)

ExplicitSign(x) == IF Ge(x, Zero) THEN <<"+">> ELSE <<"-">>

\* C21 as stated: the equation is "y = ", the slope as a sign ('+' when >= 0, '-'
\* when negative) directly followed by the 4-decimal magnitude, "x ", and the
\* intercept as a sign directly followed by the 2-decimal magnitude.
C21_SignsPrefixNumbers ==
    HasEquation =>
        out.value = <<"y", " ", "=", " ">>
                        \o ExplicitSign(inp.slope) \o ToFixed(MathAbs(inp.slope), 4)
                        \o <<"x", " ">>
                        \o ExplicitSign(inp.intercept) \o ToFixed(MathAbs(inp.intercept), 2)

\* C21 amended: the slope is rendered as stated; an intercept >= 0 is rendered as
\* '+', one space and the 2-decimal value, and a negative intercept as one more
\* space followed by '-' and the 2-decimal magnitude.
C21_SignThenSpace ==
    HasEquation =>
        out.value = <<"y", " ", "=", " ">>
                        \o ExplicitSign(inp.slope) \o ToFixed(MathAbs(inp.slope), 4)
                        \o <<"x", " ">>
                        \o (IF Ge(inp.intercept, Zero) THEN <<"+", " ">> ELSE <<" ", "-">>)
                        \o ToFixed(MathAbs(inp.intercept), 2)

C21_Witness ==
    /\ HasEquation
    /\ inp.slope = Q(-1, 3) /\ inp.intercept = Q(-1, 6)
    /\ out.value = <<"y", " ", "=", " ", "-", "0", ".", "3", "3", "3", "3", "x", " ",
                     " ", "-", "0", ".", "1", "7">>

\* the analysis has returned a result, whatever multiplier it was given
AnalysisResult == Analyzing /\ Done /\ Returned(out)

\* C25: whenever the channel width of the result of the analysis is not zero,
\* distanceFromUpper + distanceFromLower is 100, whatever the multiplier.
C25_DistancesSumTo100 ==
    (AnalysisResult /\ ~SameNumber(out.value.channelWidth, Zero)) =>
        SameNumber(Add(out.value.distanceFromUpper, out.value.distanceFromLower),
                   Num(100))

\* a result with a negative channel width and the latest price outside the band
C25_Witness ==
    /\ AnalysisResult
    /\ Lt(out.value.channelWidth, Zero)
    /\ Lt(Num(100), out.value.distanceFromLower)

\* C26: when the upper band lies above the lower band, generateSignal reports
\* BUY and SELL with a strength of at least 70 and HOLD with a strength above
\* 30: no signal comes with a strength in [0,30].
C26_StrengthFloor ==
    (HasSignal /\ Lt(SigLower, SigUpper)) =>
        /\ SigResult.signal \in {"BUY", "SELL"} => Ge(SigResult.strength, Num(70))
        /\ SigResult.signal = "HOLD" => Lt(Num(30), SigResult.strength)
        /\ ~(Le(Zero, SigResult.strength) /\ Le(SigResult.strength, Num(30)))

\* a BUY of strength exactly 70, on the threshold of the lower 15% of the channel
C26_Witness ==
    /\ HasSignal /\ Lt(SigLower, SigUpper)
    /\ SigResult.signal = "BUY"
    /\ Eq(SigResult.strength, Num(70))

\* the latest residual of the result, in half channel widths
LatestResidual ==
    Div(Mul(Num(2), Sub(out.value.currentPrice, out.value.predictedPrice)),
        out.value.channelWidth)

\* C27: with the default multiplier the analysis of 2 or 3 prices never returns
\* BUY or SELL: 2 prices are fitted exactly (channel width 0), and the latest
\* of 3 prices lies less than 0.7 half channel widths from the line.
C27_ShortSeriesHold ==
    (AnalysisReturned /\ Len(inp.prices) \in {2, 3}) =>
        /\ out.value.signal = "HOLD"
        /\ Len(inp.prices) = 2 => Eq(out.value.channelWidth, Zero)
        /\ (Len(inp.prices) = 3 /\ ~Eq(out.value.channelWidth, Zero)) =>
               Lt(MathAbs(LatestResidual), Q(7, 10))

---------------------------------------------------------------------------
(* GET /api/ml/regression-channel                                          *)

\* GET has run up to its first answer or its fetch
Validated == api.pc \in {"fetching", "analyzing", "done"}

Answered(status, error) ==
    /\ api.pc = "done"
    /\ Len(api.responses) = 1
    /\ api.responses[1].status = status
    /\ api.responses[1].error = error

\* the text of `days` is present and is not read as an integer of [10, 365]
NotADayCount(daysParam) ==
    /\ daysParam # <<>>
    /\ LET days == ParseInt(daysParam[1])
       IN  IsNaN(days) \/ Lt(days, Num(MinDays)) \/ Lt(Num(MaxDays), days)

\* C22: GET answers 400 'Days parameter must be between 10 and 365' and fetches
\* nothing whenever the text of `days` is not read as an integer of [10, 365],
\* text that is no number included; a missing symbol is answered 400 before
\* `days` is looked at; an absent `days` counts as 90.
C22_InvalidDaysRejected ==
    Validated =>
        /\ NoSymbol(api.symbol) =>
               Answered(400, SymbolRequired) /\ api.fetches = 0
        /\ (~NoSymbol(api.symbol) /\ NotADayCount(api.daysParam)) =>
               Answered(400, DaysRange) /\ api.fetches = 0
        /\ (~NoSymbol(api.symbol) /\ api.daysParam = <<>>) =>
               api.days = <<Num(DefaultDays)>> /\ api.fetches = 1

---------------------------------------------------------------------------
(* WatchlistButton                                                         *)

\* a server action of the button has just settled with `result`
JustSettled(result) ==
    /\ Len(button'.results) = Len(button.results) + 1
    /\ button'.results[Len(button'.results)][2] = result

\* C24: `added` changes and onWatchlistChange is called only when a server
\* action settles with success; when it settles with success: false or throws,
\* `added` stays and no callback is made; and the button starts no action
\* while another is pending.
C24_ChangesOnlyOnSuccess ==
    [][/\ (button'.added # button.added \/ button'.callbacks # button.callbacks) =>
              JustSettled("success")
       /\ (JustSettled("failure") \/ JustSettled("throw")) =>
              /\ button'.added = button.added
              /\ button'.callbacks = button.callbacks
       /\ Len(button'.pending) > Len(button.pending) => button.pending = <<>>
       /\ Len(button'.pending) <= 1]_vars

\* after a failed removal, a thrown removal and a successful one the stock is
\* off the list and the callback has been made once
C24_Witness ==
    /\ button.results = <<<<"removeFromWatchlist", "failure">>,
                          <<"removeFromWatchlist", "throw">>,
                          <<"removeFromWatchlist", "success">>>>
    /\ ~button.added
    /\ button.callbacks = <<<<Symbol, FALSE>>>>

---------------------------------------------------------------------------
(* addToWatchlist and removeFromWatchlist                                  *)

Returns(i, message) ==
    /\ watchlist.calls[i].pc = "done"
    /\ watchlist.calls[i].result[1].message = message

\* calls i and j overlap: one was made while the other was running
Concurrent(i, j) == i \in watchlist.calls[j].during \/ j \in watchlist.calls[i].during

\* the authenticated calls of addToWatchlist that have returned
AddsReturned ==
    {i \in 1..Len(watchlist.calls) :
        /\ watchlist.calls[i].fn = "addToWatchlist"
        /\ watchlist.calls[i].session
        /\ watchlist.calls[i].pc = "done"}

NoRemoval == \A i \in 1..Len(watchlist.calls) : watchlist.calls[i].fn = "addToWatchlist"

\* C29: under any interleaving of the two server actions the collection holds
\* at most one entry per upper-cased symbol; of concurrent calls of
\* addToWatchlist for one symbol at most one returns success and the others
\* return 'Stock already in watchlist'; a call without a session returns
\* 'User not authenticated' and writes nothing.
C29_OneEntryPerSymbol ==
    /\ \A symbol \in {"AAPL"} : Cardinality(Matching(watchlist.entries, symbol)) <= 1
    /\ NoRemoval =>
           \A i \in AddsReturned, j \in AddsReturned :
               (i # j /\ Concurrent(i, j)) =>
                   /\ ~(Returns(i, AddedToWatchlist) /\ Returns(j, AddedToWatchlist))
                   /\ Returns(i, AddedToWatchlist) \/ Returns(i, AlreadyInWatchlist)
    /\ \A i \in 1..Len(watchlist.calls) :
           (watchlist.calls[i].pc = "done" /\ ~watchlist.calls[i].session) =>
               Returns(i, NotAuthenticated) /\ ~watchlist.calls[i].wrote

---------------------------------------------------------------------------
(* WatchlistManager                                                        *)

\* C30: when handleBulkDelete has completed, a stock has left the list only if
\* its removal succeeded, the stocks whose removal failed are still listed, and
\* the list is the one of the moment the removals finished less the removed
\* stocks, not the one of the click.
C30_OnlyRemovedLeave ==
    manager.done # <<>> =>
        LET done == manager.done[1] IN
        /\ (done.before \ done.after) \subseteq done.succeeded
        /\ (done.failed \cap done.before) \subseteq done.after
        /\ done.after \subseteq done.before

---------------------------------------------------------------------------
(* LinearRegressionChannel                                                 *)

Selection == Request(chart.symbol, chart.selectedPeriod)

\* C28: once every fetch has completed, whatever the order, the data or the
\* error on display is the response to the symbol and period selected last;
\* and loading is true whenever the fetch for the current selection is still
\* under way.
C28_LatestSelectionShown ==
    /\ chart.inflight = <<>> =>
           \/ View(chart) = "error" /\ chart.error = <<Selection>>
           \/ View(chart) = "chart" /\ chart.data = <<Selection>>
    /\ (\E i \in 1..Len(chart.inflight) : chart.inflight[i] = Selection) => chart.loading
====
